---- MODULE Spec2Model ----
(***************************************************************************)
(* Model of import-sh-json (src/unnamed/part_001, lines 1-1173): the       *)
(* identity reconciliation run of importJSONfiles and processUIdentity     *)
(* against a relational store.                                             *)
(*                                                                         *)
(* Conventions.  A Go string is a sequence of code points.  A nil *string  *)
(* is NilStr, a nil *int or *bool is NilInt, a nil gender or slug is nils.*)
(* UUIDs, identity ids, sources and project slugs are never transformed by *)
(* the code and are TLA+ strings.  A time.Time is a number of seconds; the *)
(* zero time is 0.  An SQL comparison "col = ?" is true only when both     *)
(* sides are non-NULL and equal (binary collation).                        *)
(***************************************************************************)
EXTENDS Integers, Sequences, FiniteSets, TLC

NilStr == <<-1>>
NilInt == -1
nils == "(nil)"

(***************************************************************************)
(* Bounds of the model.                                                    *)
(***************************************************************************)
MaxEnr == 2

SecondsPerDay == 86400

(***************************************************************************)
(* Sequence helpers.                                                       *)
(***************************************************************************)
RECURSIVE Flatten(_)
Flatten(ss) == IF ss = <<>> THEN <<>> ELSE Head(ss) \o Flatten(Tail(ss))

Range(s) == {s[i] : i \in 1..Len(s)}

RECURSIVE SumSeq(_)
SumSeq(s) == IF s = <<>> THEN 0 ELSE Head(s) + SumSeq(Tail(s))

Perms(s) ==
    LET n == Len(s)
        bij == {f \in [1..n -> 1..n] : \A i, j \in 1..n : f[i] = f[j] => i = j}
    IN  {[i \in 1..n |-> s[f[i]]] : f \in bij}

(***************************************************************************)
(* Text utilities.                                                         *)
(***************************************************************************)
\* norm.NFKD on the code points the model uses: a precomposed accented
\* letter decomposes into its base letter and a combining mark.
NFKD(r) ==
    CASE r = 225 -> <<97, 769>>
      [] r = 233 -> <<101, 769>>
      [] r = 201 -> <<69, 769>>
      [] OTHER -> <<r>>

\* isOk of stripUnicodeStr: the runes transform.RemoveFunc removes.
isOk(r) == r < 32 \/ r >= 127

stripUnicodeStr(str) ==
    SelectSeq(Flatten([i \in 1..Len(str) |-> NFKD(str[i])]), LAMBDA r : ~isOk(r))

stripUnicode(pStr) == IF pStr = NilStr THEN NilStr ELSE stripUnicodeStr(pStr)

\* strings.ToLower on the code points the model uses.
ToLowerRune(r) ==
    IF (r >= 65 /\ r <= 90) \/ (r >= 192 /\ r <= 222 /\ r # 215) THEN r + 32 ELSE r

ToLower(str) == [i \in 1..Len(str) |-> ToLowerRune(str[i])]

cleanUTF8(str) == SelectSeq(str, LAMBDA r : r # 0)

\* Length of a rune's UTF-8 encoding, and len(string) in bytes.
RuneLen(r) == IF r < 128 THEN 1 ELSE IF r < 2048 THEN 2 ELSE IF r < 65536 THEN 3 ELSE 4

ByteLen(str) == SumSeq([i \in 1..Len(str) |-> RuneLen(str[i])])

RECURSIVE TruncLoop(_, _, _)
TruncLoop(res, rest, size) ==
    IF rest = <<>> \/ ByteLen(res) + RuneLen(Head(rest)) > size
    THEN res
    ELSE TruncLoop(Append(res, Head(rest)), Tail(rest), size)

truncToBytes(str, size) ==
    LET s == cleanUTF8(str)
    IN  IF ByteLen(s) < size THEN s ELSE TruncLoop(<<>>, s, size)

truncStringOrNil(strPtr, maxLen) ==
    IF strPtr = NilStr THEN NilStr ELSE truncToBytes(strPtr, maxLen)

(***************************************************************************)
(* Entity differ.                                                          *)
(***************************************************************************)
\* Presence of an optional field disagrees.
NilDiffer(a, b, nil) == (a = nil /\ b # nil) \/ (a # nil /\ b = nil)

profilesDiffer(p1, p2) ==
    \/ NilDiffer(p1.Name, p2.Name, NilStr)
    \/ p1.Name # NilStr /\ p2.Name # NilStr
         /\ stripUnicodeStr(p1.Name) # stripUnicodeStr(p2.Name)
    \/ NilDiffer(p1.Email, p2.Email, NilStr)
    \/ p1.Email # NilStr /\ p2.Email # NilStr
         /\ stripUnicodeStr(p1.Email) # stripUnicodeStr(p2.Email)
    \/ NilDiffer(p1.GenderAcc, p2.GenderAcc, NilInt)
    \/ p1.GenderAcc # NilInt /\ p2.GenderAcc # NilInt /\ p1.GenderAcc # p2.GenderAcc
    \/ NilDiffer(p1.IsBot, p2.IsBot, NilInt)
    \/ p1.IsBot # NilInt /\ p2.IsBot # NilInt /\ p1.IsBot # p2.IsBot
    \/ NilDiffer(p1.CountryCode, p2.CountryCode, NilStr)
    \/ p1.CountryCode # NilStr /\ p2.CountryCode # NilStr
         /\ truncToBytes(p1.CountryCode, 2) # truncToBytes(p2.CountryCode, 2)

identitiesDiffer(i1, i2) ==
    \/ i1.UUID # i2.UUID
    \/ i1.ID # i2.ID
    \/ i1.Source # i2.Source
    \/ NilDiffer(i1.Name, i2.Name, NilStr)
    \/ i1.Name # NilStr /\ i2.Name # NilStr
         /\ stripUnicodeStr(i1.Name) # stripUnicodeStr(i2.Name)
    \/ NilDiffer(i1.Email, i2.Email, NilStr)
    \/ i1.Email # NilStr /\ i2.Email # NilStr
         /\ stripUnicodeStr(i1.Email) # stripUnicodeStr(i2.Email)
    \/ NilDiffer(i1.Username, i2.Username, NilStr)
    \/ i1.Username # NilStr /\ i2.Username # NilStr
         /\ stripUnicodeStr(i1.Username) # stripUnicodeStr(i2.Username)

\* shTime.String: Format("2006-01-02") keeps the calendar date only.
\* Mutant of shTimeString: the time of day is part of the text.
shTimeStringSeconds(t) == t

shTimeString(t) == t \div SecondsPerDay

\* Mutant of shEnrollmentString: the end date is left out of the key.
shEnrollmentStringNoEnd(e) ==
    <<e.UUID, e.Organization, e.OrgID, shTimeString(e.Start), 0, e.ProjectSlug>>

\* shEnrollment.String: the comparison key.  The formatted text is modelled
\* by the tuple of the values it prints; a nil slug prints as "(nil)".
shEnrollmentString(e) ==
    <<e.UUID, e.Organization, e.OrgID, shTimeString(e.Start), shTimeString(e.End),
      e.ProjectSlug>>

enrollmentsDiffer(e1, e2) ==
    LET m1 == {shEnrollmentString(e1[i]) : i \in 1..Len(e1)}
        m2 == {shEnrollmentString(e2[i]) : i \in 1..Len(e2)}
    IN  (\E k1 \in m1 : k1 \notin m2) \/ (\E k2 \in m2 : k2 \notin m1)

(***************************************************************************)
(* Pattern matching of the store ("select ? regexp ?").  Patterns use ^,   *)
(* $, ., * and a backslash escape; matching is case sensitive.             *)
(***************************************************************************)
RECURSIVE MatchHere(_, _)
MatchHere(re, text) ==
    IF re = <<>> THEN TRUE
    ELSE LET esc == re[1] = 92 /\ Len(re) >= 2
             c == IF esc THEN re[2] ELSE re[1]
             rest == SubSeq(re, IF esc THEN 3 ELSE 2, Len(re))
             hit(r) == (~esc /\ c = 46) \/ r = c
         IN  IF rest # <<>> /\ rest[1] = 42
             THEN \E k \in 0..Len(text) :
                     /\ \A i \in 1..k : hit(text[i])
                     /\ MatchHere(Tail(rest), SubSeq(text, k + 1, Len(text)))
             ELSE IF ~esc /\ c = 36 /\ rest = <<>>
             THEN text = <<>>
             ELSE text # <<>> /\ hit(text[1]) /\ MatchHere(rest, Tail(text))

Regexp(text, re) ==
    IF re # <<>> /\ re[1] = 94
    THEN MatchHere(Tail(re), text)
    ELSE \E k \in 0..Len(text) : MatchHere(re, SubSeq(text, k + 1, Len(text)))

\* strings.Replace(re, "\\\\", "\\", -1): every pair of backslashes becomes one.
RECURSIVE Unescape(_)
Unescape(re) ==
    IF Len(re) >= 2 /\ re[1] = 92 /\ re[2] = 92 THEN <<92>> \o Unescape(SubSeq(re, 3, Len(re)))
    ELSE IF re = <<>> THEN <<>>
    ELSE <<re[1]>> \o Unescape(Tail(re))

(***************************************************************************)
(* The store.  db is a record of tables: uidentities (a set of uuids),     *)
(* profiles, identities, organizations (sets of rows), countries (a set of *)
(* codes) and enrollments (a sequence of rows, as the table has no key).   *)
(***************************************************************************)
\* Mutant of SqlEq: the null-safe comparison "<=>".
SqlEqNullSafe(col, arg, nil) == col = arg

\* "col = ?": never true when the column or the argument is NULL.
SqlEq(col, arg, nil) == col # nil /\ arg # nil /\ col = arg

\* where id = ? or (name = ? and email = ? and username = ? and source = ?)
IdentityMatch(r, identity) ==
    \/ r.id = identity.ID
    \/ /\ SqlEq(r.name, stripUnicode(identity.Name), NilStr)
       /\ SqlEq(r.email, stripUnicode(identity.Email), NilStr)
       /\ SqlEq(r.username, stripUnicode(identity.Username), NilStr)
       /\ r.source = identity.Source

\* Mutant of EnrollmentMatch: the project slug is not part of the condition.
EnrollmentMatchAnySlug(r, uuid, slug) == r.uuid = uuid

\* where uuid = ? and project_slug is null / and project_slug = ?
EnrollmentMatch(r, uuid, slug) ==
    /\ r.uuid = uuid
    /\ IF slug = nils THEN r.project_slug = nils ELSE SqlEq(r.project_slug, slug, nils)

\* The shProfile a profiles row scans into.
ScanProfile(r) ==
    [Name |-> r.name, Email |-> r.email, Gender |-> r.gender, GenderAcc |-> r.gender_acc,
     IsBot |-> r.is_bot, CountryCode |-> r.country_code]

\* The shIdentity an identities row scans into.
ScanIdentity(r) ==
    [UUID |-> r.uuid, ID |-> r.id, Source |-> r.source, Name |-> r.name,
     Email |-> r.email, Username |-> r.username]

\* uidentity.Profile.CountryCode as set from the country object when present.
CountryCodeOf(p) == IF p.Country # NilStr THEN p.Country ELSE p.CountryCode

\* The row "insert into profiles" stores for an incoming profile.
ProfileRow(uuid, p) ==
    [uuid |-> uuid, name |-> stripUnicode(p.Name), email |-> stripUnicode(p.Email),
     gender |-> p.Gender, gender_acc |-> p.GenderAcc, is_bot |-> p.IsBot,
     country_code |-> truncStringOrNil(CountryCodeOf(p), 2)]

\* The row "insert into identities" stores for an incoming identity.
IdentityRow(identity) ==
    [uuid |-> identity.UUID, id |-> identity.ID, source |-> identity.Source,
     name |-> stripUnicode(identity.Name), email |-> stripUnicode(identity.Email),
     username |-> stripUnicode(identity.Username)]

\* The row "insert into enrollments" stores for an incoming enrollment.
EnrollmentRow(e, slug) ==
    [uuid |-> e.UUID, organization_id |-> e.OrgID, start |-> e.Start, end |-> e.End,
     project_slug |-> slug]

OrgNames(d) == {o.name : o \in d.organizations}

OrgIdOf(d, name) == (CHOOSE o \in d.organizations : o.name = name).id

NextOrgId(d) ==
    IF d.organizations = {} THEN 1
    ELSE 1 + (CHOOSE m \in {o.id : o \in d.organizations} :
                 \A o \in d.organizations : o.id <= m)

\* addOrganization: insert the stripped name (a duplicate is Error 1062, the
\* row counts as existing), then fetch the id by the name as given; no row
\* for it is fatal.
addOrganization(d, company) ==
    LET stripped == stripUnicodeStr(company)
        exists == stripped \in OrgNames(d)
        d2 == IF exists THEN d
              ELSE [d EXCEPT !.organizations =
                        @ \cup {[id |-> NextOrgId(d), name |-> stripped]}]
        fetched == company \in OrgNames(d2)
    IN  [db |-> d2, id |-> IF fetched THEN OrgIdOf(d2, company) ELSE 0,
         exists |-> exists, fatal |-> ~fetched]

\* addCountry: a duplicate code (Error 1062) is reported as existing.
addCountry(d, code) == [d EXCEPT !.countries = @ \cup {code}]

(***************************************************************************)
(* The state of one run.                                                   *)
(***************************************************************************)
VARIABLES
    env,               \* REPLACE, COMPARE, ORGS_RO, DRY, PROJECT_SLUG, threads, rules file
    files,             \* the parsed files: a sequence of sets of uidentity records
    unreadable,        \* positions of the files ReadFile or json.Unmarshal fails on
    db,                \* the store
    db0,               \* the store when the first run started
    runs,              \* invocations of the program completed before this one
    pc,                \* position of importJSONfiles
    todo,              \* items the current range loop has not visited
    fileIdx,           \* index of the file being scheduled
    nThreads,          \* goroutines launched and not yet received from
    comp2id,           \* organization name -> id
    id2comp,           \* organization id -> name
    lcomp2id,          \* lower-cased organization name -> id
    orgNamesMappings,  \* the mapping rules: a sequence of <<pattern, name>>
    orgsLoaded,
    missingOrgs,
    orgsAdded,         \* the "added new" count of the organizations line
    mut,               \* writer of the resolver's RWMutex (<<>> when free)
    rs,                \* processOrg activations, by organization name
    mtx,               \* holder of the workers' RWMutex ("" when free)
    ws,                \* processUIdentity activations, by uuid
    stats,             \* the aggregate importStats
    panicking,         \* a worker's panic is unwinding after its deferred send
    locals,            \* history: sum of the local importStats of the workers of finished files
    dArgs,             \* arguments handed to enrollmentsDiffer
    dRes               \* its answer

storeVars == <<db, db0, runs>>
inputVars == <<env, files, unreadable>>
mainVars == <<pc, todo, fileIdx, nThreads>>
orgVars == <<comp2id, id2comp, lcomp2id, orgNamesMappings, orgsLoaded, missingOrgs,
            orgsAdded, mut, rs>>
workVars == <<mtx, ws, stats, panicking, locals>>
pureVars == <<dArgs, dRes>>
vars == <<env, files, unreadable, db, db0, runs, pc, todo, fileIdx, nThreads, comp2id, id2comp,
          lcomp2id, orgNamesMappings, orgsLoaded, missingOrgs, orgsAdded, mut, rs, mtx, ws, stats,
          panicking, locals, dArgs, dRes>>

ZeroStats ==
    [uidentitiesAdded |-> 0, uidentitiesFound |-> 0,
     profilesAdded |-> 0, profilesFound |-> 0, profilesSame |-> 0, profilesDeleted |-> 0,
     identitiesAdded |-> 0, identitiesFound |-> 0, identitiesSame |-> 0,
     identitiesDeleted |-> 0,
     enrollmentsAdded |-> 0, enrollmentsFound |-> 0, enrollmentsSame |-> 0,
     enrollmentsDeleted |-> 0, enrollmentsSkipped |-> 0]

\* Mutant of AddStats: the counters added are dropped.
AddStatsDropped(a, b) == a

AddStats(a, b) == [k \in DOMAIN a |-> a[k] + b[k]]

Inc(sts, k) == [sts EXCEPT ![k] = @ + 1]

\* A Go map as a function: m[k] = v.
Put(m, k, v) == (k :> v) @@ m

Has(m, k) == k \in DOMAIN m

EmptyMap == <<>>

\* Every record of every file.
AllRecords(fs) == UNION {fs[i] : i \in 1..Len(fs)}

\* orgs and countries as importJSONfiles collects them while parsing.
BatchOrgs(fs) ==
    UNION {{r.Enrollments[j].Organization : j \in 1..Len(r.Enrollments)} :
             r \in AllRecords(fs)}

BatchCountries(fs) == {r.Profile.Country : r \in AllRecords(fs)} \ {NilStr}

\* State of the run that does not depend on the inputs.
InitRun ==
    /\ pc = "start"
    /\ todo = {}
    /\ fileIdx = 0
    /\ nThreads = 0
    /\ comp2id = EmptyMap
    /\ id2comp = EmptyMap
    /\ lcomp2id = EmptyMap
    /\ orgNamesMappings = <<>>
    /\ orgsLoaded = FALSE
    /\ missingOrgs = {}
    /\ orgsAdded = 0
    /\ mut = <<>>
    /\ rs = EmptyMap
    /\ mtx = ""
    /\ ws = EmptyMap
    /\ stats = ZeroStats
    /\ panicking = FALSE
    /\ locals = ZeroStats

(***************************************************************************)
(* importJSONfiles: parsing, the organizations registry, default-mode      *)
(* organization insertion, countries.                                      *)
(***************************************************************************)
\* lcomp2id after the registry scan: for registry names that agree up to
\* letter case the row scanned last wins, and the scan order is the store's.
LowerMaps(d) ==
    LET lnames == {ToLower(n) : n \in OrgNames(d)}
        ids == {o.id : o \in d.organizations}
    IN  {f \in [lnames -> ids] :
            \A l \in lnames : \E o \in d.organizations : ToLower(o.name) = l /\ o.id = f[l]}

\* Mutant of OrgsMode: the names are inserted in read-only mode too.
OrgsModeInsert(orgsRO) == "orgs_add"

\* if orgsRO { ... processOrg ... } else { ... addOrganization ... }
OrgsMode(orgsRO) == IF orgsRO THEN "orgs_ro" ELSE "orgs_add"

\* A processOrg activation that has not been started.
IdleOrg == [pc |-> "idle", cid |-> 0, rules |-> <<>>, i |-> 0, lower |-> FALSE]

\* Mutant of ParseFails: only the first file is checked.
ParseFailsFirstOnly(bad) == 1 \in bad

\* The loop over fileNames hits fatalOnError(err) of ReadFile or of
\* json.Unmarshal at the first file it cannot read or parse.
ParseFails(bad) == bad # {}

\* Parse the files and read the registry; DRY returns here.
\* Mutant of DryReturn: DRY is not looked at.
DryReturnNever == FALSE

\* "if dry { ...; return nil }", after the registry was read.
DryReturn == env.dry

Start ==
    /\ pc = "start"
    /\ IF ParseFails(unreadable)
       THEN /\ pc' = "aborted"
            /\ UNCHANGED <<todo, rs, comp2id, id2comp, lcomp2id>>
       ELSE /\ comp2id' = [n \in OrgNames(db) |-> OrgIdOf(db, n)]
            /\ id2comp' = [i \in {o.id : o \in db.organizations} |->
                              (CHOOSE o \in db.organizations : o.id = i).name]
            /\ \E lc \in LowerMaps(db) : lcomp2id' = lc
            /\ IF DryReturn
               THEN pc' = "dry_done" /\ todo' = {} /\ rs' = rs
               ELSE /\ pc' = OrgsMode(env.orgsRO)
                    /\ todo' = BatchOrgs(files)
                    /\ rs' = [o \in BatchOrgs(files) |-> IdleOrg]
    /\ UNCHANGED <<storeVars, inputVars, fileIdx, nThreads, orgNamesMappings, orgsLoaded,
                   missingOrgs, orgsAdded, mut, workVars, pureVars>>

\* Default mode: one iteration of "for comp := range orgs".
AddOrg(comp) ==
    /\ pc = "orgs_add"
    /\ comp \in todo
    /\ todo' = todo \ {comp}
    /\ IF Has(comp2id, comp)
       THEN UNCHANGED <<db, comp2id, id2comp, pc, orgsAdded>>
       ELSE LET a == addOrganization(db, comp)
            IN  /\ db' = a.db
                /\ IF a.fatal
                   THEN pc' = "aborted" /\ UNCHANGED <<comp2id, id2comp, orgsAdded>>
                   ELSE /\ comp2id' = Put(comp2id, comp, a.id)
                        /\ id2comp' = Put(id2comp, a.id, comp)
                        /\ orgsAdded' = IF a.exists THEN orgsAdded ELSE orgsAdded + 1
                        /\ pc' = pc
    /\ UNCHANGED <<db0, runs, inputVars, fileIdx, nThreads, lcomp2id, orgNamesMappings,
                   orgsLoaded, missingOrgs, mut, rs, workVars, pureVars>>

\* Mutant of OrgsDrained: the loop over orgs has ended, without the drain
\* "for nThreads > 0 { <-ch }".
OrgsDrainedNoWait == todo = {}

\* The loop over orgs has ended and every processOrg launched has been
\* received from (or, single-threaded, has returned).
OrgsDrained ==
    /\ todo = {}
    /\ nThreads = 0
    /\ \A o \in DOMAIN rs : rs[o].pc \in {"idle", "done"}

\* Both modes: the organizations are resolved; go on to the countries.
OrgsDone ==
    /\ pc \in {"orgs_add", "orgs_ro"}
    /\ OrgsDrained
    /\ pc' = "countries"
    /\ todo' = BatchCountries(files)
    /\ UNCHANGED <<storeVars, inputVars, fileIdx, nThreads, orgVars, workVars, pureVars>>

\* One iteration of "for _, country := range countries".
AddCountry(code) ==
    /\ pc = "countries"
    /\ code \in todo
    /\ todo' = todo \ {code}
    /\ db' = addCountry(db, code)
    /\ UNCHANGED <<db0, runs, inputVars, pc, fileIdx, nThreads, orgVars, workVars, pureVars>>

CountriesDone ==
    /\ pc = "countries"
    /\ todo = {}
    /\ pc' = "fan"
    /\ UNCHANGED <<storeVars, inputVars, todo, fileIdx, nThreads, orgVars, workVars,
                   pureVars>>

(***************************************************************************)
(* Read-only mode: the fan-out over orgs and processOrg.                   *)
(***************************************************************************)
\* go processOrg(ch, org); nThreads++.  With nThreads == thrN the loop is
\* blocked in "<-ch", so nothing is launched then.
ROLaunch(o) ==
    /\ pc = "orgs_ro"
    /\ env.thrN > 1
    /\ o \in todo
    /\ nThreads < env.thrN
    /\ todo' = todo \ {o}
    /\ nThreads' = nThreads + 1
    /\ rs' = [rs EXCEPT ![o].pc = "exact"]
    /\ UNCHANGED <<storeVars, inputVars, pc, fileIdx, comp2id, id2comp, lcomp2id,
                   orgNamesMappings, orgsLoaded, missingOrgs, orgsAdded, mut, workVars, pureVars>>

\* "<-ch; nThreads--": in the launch loop once thrN are in flight, and in
\* the drain loop after it.
RORecv(o) ==
    /\ pc = "orgs_ro"
    /\ env.thrN > 1
    /\ nThreads = env.thrN \/ todo = {}
    /\ rs[o].pc = "send"
    /\ nThreads' = nThreads - 1
    /\ rs' = [rs EXCEPT ![o].pc = "done"]
    /\ UNCHANGED <<storeVars, inputVars, pc, todo, fileIdx, comp2id, id2comp, lcomp2id,
                   orgNamesMappings, orgsLoaded, missingOrgs, orgsAdded, mut, workVars, pureVars>>

\* Single-threaded: processOrg(nil, org), called when the previous call returned.
ROCall(o) ==
    /\ pc = "orgs_ro"
    /\ env.thrN = 1
    /\ o \in todo
    /\ \A q \in DOMAIN rs : rs[q].pc \in {"idle", "done"}
    /\ todo' = todo \ {o}
    /\ rs' = [rs EXCEPT ![o].pc = "exact"]
    /\ UNCHANGED <<storeVars, inputVars, pc, fileIdx, nThreads, comp2id, id2comp, lcomp2id,
                   orgNamesMappings, orgsLoaded, missingOrgs, orgsAdded, mut, workVars, pureVars>>

\* processOrg returns: the deferred send when there is a channel.
OrgReturn == IF env.thrN > 1 THEN "send" ELSE "done"

\* Mutant of MutFree: the lock is taken whoever holds it.
MutFreeAlways == TRUE

\* mut.RLock() and mut.Lock() return when no goroutine holds the write lock;
\* the accesses made under the lock are one step with its release.
MutFree == mut = <<>>

\* cid, exists := comp2id[comp], under the read lock.
POExact(o) ==
    /\ pc = "orgs_ro"
    /\ rs[o].pc = "exact"
    /\ MutFree
    /\ rs' = [rs EXCEPT ![o].pc = IF Has(comp2id, o) THEN OrgReturn ELSE "lower"]
    /\ UNCHANGED <<storeVars, inputVars, mainVars, comp2id, id2comp, lcomp2id,
                   orgNamesMappings, orgsLoaded, missingOrgs, orgsAdded, mut, workVars, pureVars>>

\* _, exists = lcomp2id[lComp], under the read lock: the id is not kept.
POLower(o) ==
    /\ pc = "orgs_ro"
    /\ rs[o].pc = "lower"
    /\ MutFree
    /\ rs' = [rs EXCEPT ![o].pc = IF Has(lcomp2id, ToLower(o)) THEN "lower_write"
                                  ELSE "check"]
    /\ UNCHANGED <<storeVars, inputVars, mainVars, comp2id, id2comp, lcomp2id,
                   orgNamesMappings, orgsLoaded, missingOrgs, orgsAdded, mut, workVars, pureVars>>

\* The case-insensitive hit: comp2id[comp] = cid; id2comp[cid] = comp, where
\* cid is still what the failed exact lookup left in it.
POLowerWrite(o) ==
    /\ pc = "orgs_ro"
    /\ rs[o].pc = "lower_write"
    /\ MutFree
    /\ comp2id' = Put(comp2id, o, rs[o].cid)
    /\ id2comp' = Put(id2comp, rs[o].cid, o)
    /\ rs' = [rs EXCEPT ![o].pc = OrgReturn]
    /\ UNCHANGED <<storeVars, inputVars, mainVars, lcomp2id, orgNamesMappings, orgsLoaded,
                   missingOrgs, orgsAdded, mut, workVars, pureVars>>

\* mut.RLock(); if !orgsLoaded { mut.RUnlock(); ... } else { mut.RUnlock() }
POCheck(o) ==
    /\ pc = "orgs_ro"
    /\ rs[o].pc = "check"
    /\ MutFree
    /\ rs' = [rs EXCEPT ![o].pc = IF orgsLoaded THEN "range" ELSE "load_lock"]
    /\ UNCHANGED <<storeVars, inputVars, mainVars, comp2id, id2comp, lcomp2id,
                   orgNamesMappings, orgsLoaded, missingOrgs, orgsAdded, mut, workVars, pureVars>>

\* A rule yaml.Unmarshal has allocated and not yet decoded.
ZeroRule == <<<<>>, <<>>>>

\* mut.Lock(), with no second look at orgsLoaded; with a rules file,
\* yaml.Unmarshal first sets Mappings to a fresh slice of zero entries.
POLoadLock(o) ==
    /\ pc = "orgs_ro"
    /\ rs[o].pc = "load_lock"
    /\ MutFree
    /\ mut' = o
    /\ orgNamesMappings' = [k \in 1..Len(env.orgsMap) |-> ZeroRule]
    /\ rs' = [rs EXCEPT ![o].pc = IF env.orgsMap = <<>> THEN "load_done" ELSE "fill",
                        ![o].i = 1]
    /\ UNCHANGED <<storeVars, inputVars, mainVars, comp2id, id2comp, lcomp2id, orgsLoaded,
                   missingOrgs, orgsAdded, workVars, pureVars>>

\* yaml.Unmarshal decodes one rule into the slice.
POFill(o) ==
    /\ pc = "orgs_ro"
    /\ rs[o].pc = "fill"
    /\ orgNamesMappings' = [orgNamesMappings EXCEPT ![rs[o].i] = env.orgsMap[rs[o].i]]
    /\ rs' = [rs EXCEPT ![o].i = @ + 1,
                        ![o].pc = IF rs[o].i = Len(env.orgsMap) THEN "load_done" ELSE "fill"]
    /\ UNCHANGED <<storeVars, inputVars, mainVars, comp2id, id2comp, lcomp2id, orgsLoaded,
                   missingOrgs, orgsAdded, mut, workVars, pureVars>>

\* orgsLoaded = true; mut.Unlock()
POLoadDone(o) ==
    /\ pc = "orgs_ro"
    /\ rs[o].pc = "load_done"
    /\ orgsLoaded' = TRUE
    /\ mut' = <<>>
    /\ rs' = [rs EXCEPT ![o].pc = "range"]
    /\ UNCHANGED <<storeVars, inputVars, mainVars, comp2id, id2comp, lcomp2id,
                   orgNamesMappings, missingOrgs, orgsAdded, workVars, pureVars>>

\* "for _, mapping := range orgNamesMappings.Mappings": the slice is read
\* once, with no lock held, when the loop starts (first over the name as
\* written, then over the lower-cased name).
PORange(o) ==
    /\ pc = "orgs_ro"
    /\ rs[o].pc = "range"
    /\ rs' = [rs EXCEPT ![o].rules = orgNamesMappings, ![o].i = 1,
                        ![o].pc = IF orgNamesMappings # <<>> THEN "rule"
                                  ELSE IF rs[o].lower THEN "missing" ELSE "range",
                        ![o].lower = IF orgNamesMappings # <<>> THEN @ ELSE TRUE]
    /\ UNCHANGED <<storeVars, inputVars, mainVars, comp2id, id2comp, lcomp2id,
                   orgNamesMappings, orgsLoaded, missingOrgs, orgsAdded, mut, workVars, pureVars>>

\* The text a rule's pattern is tested against.
RuleTarget(o, lower) == IF lower THEN ToLower(o) ELSE o

\* "select ? regexp ?" for one rule.
RuleHits(o, lower, mapping) == Regexp(RuleTarget(o, lower), Unescape(mapping[1]))

\* One iteration over the rules: the pattern test, the lookup of the
\* canonical name (in comp2id for the name as written, in lcomp2id for the
\* lower-cased name) and, when it is known, the new mapping.
PORule(o) ==
    LET r == rs[o]
        mapping == r.rules[r.i]
        m == RuleHits(o, r.lower, mapping)
        to == mapping[2]
        reg == IF r.lower THEN lcomp2id ELSE comp2id
        exists == m /\ Has(reg, to)
        last == r.i = Len(r.rules)
    IN  /\ pc = "orgs_ro"
        /\ r.pc = "rule"
        /\ m => MutFree
        /\ IF exists
           THEN /\ comp2id' = Put(comp2id, o, reg[to])
                /\ id2comp' = Put(id2comp, reg[to], o)
                /\ rs' = [rs EXCEPT ![o].pc = OrgReturn]
           ELSE /\ UNCHANGED <<comp2id, id2comp>>
                /\ rs' = [rs EXCEPT ![o].i = @ + 1,
                                    ![o].pc = IF ~last THEN "rule"
                                              ELSE IF r.lower THEN "missing" ELSE "range",
                                    ![o].lower = IF last THEN TRUE ELSE @]
        /\ UNCHANGED <<storeVars, inputVars, mainVars, lcomp2id, orgNamesMappings,
                       orgsLoaded, missingOrgs, orgsAdded, mut, workVars, pureVars>>

\* Nothing found: orgsMissing++; missingOrgs[comp] = struct{}{}, under the lock.
POMissing(o) ==
    /\ pc = "orgs_ro"
    /\ rs[o].pc = "missing"
    /\ MutFree
    /\ missingOrgs' = missingOrgs \cup {o}
    /\ rs' = [rs EXCEPT ![o].pc = OrgReturn]
    /\ UNCHANGED <<storeVars, inputVars, mainVars, comp2id, id2comp, lcomp2id,
                   orgNamesMappings, orgsLoaded, orgsAdded, mut, workVars, pureVars>>

(***************************************************************************)
(* processUIdentity.  Every SQL statement is one step; what the code       *)
(* computes between two statements belongs to the step of the statement    *)
(* before it.  ops and dec are history: the mutations a worker issued, and *)
(* what each lookup found.                                                 *)
(***************************************************************************)
IdleWorker ==
    [pc |-> "idle", sts |-> ZeroStats, fetched |-> FALSE, same |-> FALSE, i |-> 0,
     enr |-> <<>>, existing |-> <<>>, calc |-> FALSE, ops |-> <<>>, dec |-> <<>>]

\* The record a worker was launched with.
Rec(u) == CHOOSE r \in files[fileIdx] : r.UUID = u

\* Mutant of DoDelete: rows found are deleted whatever replace is.
DoDeleteAnyMode(fetched, same, replace) == fetched /\ ~same

\* if fetched && !same && replace { delete ... }
DoDelete(fetched, same, replace) == fetched /\ ~same /\ replace

\* Mutant of DoInsert: compare mode does not hold back the insert.
DoInsertIgnoreSame(fetched, same, replace) == ~fetched \/ (fetched /\ replace)

\* if !same && (!fetched || (fetched && replace)) { insert ... }
DoInsert(fetched, same, replace) == ~same /\ (~fetched \/ (fetched /\ replace))

\* Where a worker goes after a lookup, by the two conditions above.
AfterLookup(fetched, same, del, ins, skip) ==
    IF DoDelete(fetched, same, env.replace) THEN del
    ELSE IF DoInsert(fetched, same, env.replace) THEN ins
    ELSE skip

\* Mutant of AfterDelete: nothing is inserted after a delete.
AfterDeleteSkip(w, ins, skip) == skip

\* After the delete the insert's own condition is evaluated.
AfterDelete(w, ins, skip) == IF DoInsert(w.fetched, w.same, env.replace) THEN ins ELSE skip

Op(t, k, op) == [t |-> t, k |-> k, op |-> op]

Dec(t, k, fetched, same) == [t |-> t, k |-> k, fetched |-> fetched, same |-> same]

\* fatalOnError in a worker: with a channel the deferred send comes first and
\* the panic ends the process after it; without one the panic unwinds
\* importJSONfiles at once.
Failed(w) == [w EXCEPT !.pc = IF env.thrN > 1 THEN "panic_send" ELSE "dead"]

MainAfter(fatal) == IF fatal /\ env.thrN = 1 THEN "aborted" ELSE pc

\* Mutant of IdentitiesFrom: the enrollments come before the identities are
\* looked at.
IdentitiesFromSkip(rec, i) == "enr_q"

\* First step of the identities loop, or of what follows it.
IdentitiesFrom(rec, i) == IF i <= Len(rec.Identities) THEN "id_q" ELSE "enr_q"

MergeStart == IF env.thrN > 1 THEN "lock" ELSE "merge"

\* Mutant of AfterUidLookup: the insert does not depend on the lookup.
AfterUidLookupAlways(fetched) == "uid_ins"

\* "if !fetched { insert into uidentities ... } else { sts.uidentitiesFound++ }"
AfterUidLookup(fetched) == IF fetched THEN "prof_q" ELSE "uid_ins"

\* select uuid from uidentities where uuid = ?
WUidQuery(u) ==
    LET w == ws[u]
        fetched == Rec(u).UUID \in db.uidentities
    IN  /\ pc = "fan"
        /\ w.pc = "uid_q"
        /\ ws' = [ws EXCEPT ![u] =
                    [w EXCEPT !.fetched = fetched,
                              !.sts = IF fetched THEN Inc(@, "uidentitiesFound") ELSE @,
                              !.pc = AfterUidLookup(fetched)]]
        /\ UNCHANGED <<storeVars, inputVars, mainVars, orgVars, mtx, stats, panicking, locals, pureVars>>

\* insert into uidentities(uuid, last_modified)
WUidInsert(u) ==
    LET w == ws[u]
        fatal == Rec(u).UUID \in db.uidentities
    IN  /\ pc = "fan"
        /\ w.pc = "uid_ins"
        /\ db' = [db EXCEPT !.uidentities = @ \cup {Rec(u).UUID}]
        /\ ws' = [ws EXCEPT ![u] =
                    IF fatal THEN Failed(w)
                    ELSE [w EXCEPT !.sts = Inc(@, "uidentitiesAdded"), !.pc = "prof_q",
                                   !.ops = Append(@, Op("uidentity", 0, "insert"))]]
        /\ pc' = MainAfter(fatal)
        /\ UNCHANGED <<db0, runs, inputVars, todo, fileIdx, nThreads, orgVars, mtx, stats,
                       panicking, locals, pureVars>>

\* The incoming profile as the code compares it: CountryCode taken from Country.
Incoming(p) ==
    [Name |-> p.Name, Email |-> p.Email, Gender |-> p.Gender, GenderAcc |-> p.GenderAcc,
     IsBot |-> p.IsBot, CountryCode |-> CountryCodeOf(p)]

NoRow == [uuid |-> ""]

FirstOf(rows) == IF rows = {} THEN {NoRow} ELSE rows

\* select ... from profiles where uuid = ?, then the comparison.
WProfQuery(u) ==
    LET w == ws[u]
        rec == Rec(u)
        rows == {r \in db.profiles : r.uuid = rec.UUID}
        fetched == rows # {}
    IN  /\ pc = "fan"
        /\ w.pc = "prof_q"
        /\ \E row \in FirstOf(rows) :
             LET same == /\ fetched
                         /\ env.compare
                         /\ ~profilesDiffer(Incoming(rec.Profile), ScanProfile(row))
                 s1 == IF fetched THEN Inc(w.sts, "profilesFound") ELSE w.sts
                 s2 == IF same THEN Inc(s1, "profilesSame") ELSE s1
             IN  ws' = [ws EXCEPT ![u] =
                         [w EXCEPT !.fetched = fetched, !.same = same, !.sts = s2,
                                   !.i = 1,
                                   !.dec = Append(@, Dec("profile", 0, fetched, same)),
                                   !.pc = AfterLookup(fetched, same, "prof_del",
                                            "prof_ins", IdentitiesFrom(rec, 1))]]
        /\ UNCHANGED <<storeVars, inputVars, mainVars, orgVars, mtx, stats, panicking, locals, pureVars>>

\* delete from profiles where uuid = ?
WProfDelete(u) ==
    LET w == ws[u]
        rec == Rec(u)
    IN  /\ pc = "fan"
        /\ w.pc = "prof_del"
        /\ db' = [db EXCEPT !.profiles = {r \in @ : r.uuid # rec.UUID}]
        /\ ws' = [ws EXCEPT ![u] =
                    [w EXCEPT !.sts = Inc(@, "profilesDeleted"),
                              !.pc = AfterDelete(w, "prof_ins", IdentitiesFrom(rec, 1)),
                              !.ops = Append(@, Op("profile", 0, "delete"))]]
        /\ UNCHANGED <<db0, runs, inputVars, mainVars, orgVars, mtx, stats, panicking, locals, pureVars>>

\* insert into profiles(...); uuid is unique.
WProfInsert(u) ==
    LET w == ws[u]
        rec == Rec(u)
        fatal == \E r \in db.profiles : r.uuid = rec.UUID
    IN  /\ pc = "fan"
        /\ w.pc = "prof_ins"
        /\ db' = IF fatal THEN db
                 ELSE [db EXCEPT !.profiles = @ \cup {ProfileRow(rec.UUID, rec.Profile)}]
        /\ ws' = [ws EXCEPT ![u] =
                    IF fatal
                    THEN Failed([w EXCEPT !.ops = Append(@, Op("profile", 0, "insert"))])
                    ELSE [w EXCEPT !.sts = Inc(@, "profilesAdded"),
                                   !.pc = IdentitiesFrom(rec, 1),
                                   !.ops = Append(@, Op("profile", 0, "insert"))]]
        /\ pc' = MainAfter(fatal)
        /\ UNCHANGED <<db0, runs, inputVars, todo, fileIdx, nThreads, orgVars, mtx, stats,
                       panicking, locals, pureVars>>

\* select ... from identities where id = ? or (...), then the comparison
\* with the first row returned.
WIdQuery(u) ==
    LET w == ws[u]
        rec == Rec(u)
        identity == rec.Identities[w.i]
        rows == {r \in db.identities : IdentityMatch(r, identity)}
        fetched == rows # {}
    IN  /\ pc = "fan"
        /\ w.pc = "id_q"
        /\ \E row \in FirstOf(rows) :
             LET same == /\ fetched
                         /\ env.compare
                         /\ ~identitiesDiffer(identity, ScanIdentity(row))
                 s1 == IF fetched THEN Inc(w.sts, "identitiesFound") ELSE w.sts
                 s2 == IF same THEN Inc(s1, "identitiesSame") ELSE s1
             IN  ws' = [ws EXCEPT ![u] =
                         [w EXCEPT !.fetched = fetched, !.same = same, !.sts = s2,
                                   !.dec = Append(@, Dec("identity", w.i, fetched, same)),
                                   !.i = IF AfterLookup(fetched, same, "d", "i", "s") = "s"
                                         THEN @ + 1 ELSE @,
                                   !.pc = AfterLookup(fetched, same, "id_del", "id_ins",
                                            IdentitiesFrom(rec, w.i + 1))]]
        /\ UNCHANGED <<storeVars, inputVars, mainVars, orgVars, mtx, stats, panicking, locals, pureVars>>

\* delete from identities where id = ? or (...)
WIdDelete(u) ==
    LET w == ws[u]
        identity == Rec(u).Identities[w.i]
    IN  /\ pc = "fan"
        /\ w.pc = "id_del"
        /\ db' = [db EXCEPT !.identities = {r \in @ : ~IdentityMatch(r, identity)}]
        /\ ws' = [ws EXCEPT ![u] =
                    [w EXCEPT !.sts = Inc(@, "identitiesDeleted"),
                              !.i = IF AfterDelete(w, "i", "s") = "s" THEN @ + 1 ELSE @,
                              !.pc = AfterDelete(w, "id_ins",
                                                 IdentitiesFrom(Rec(u), w.i + 1)),
                              !.ops = Append(@, Op("identity", w.i, "delete"))]]
        /\ UNCHANGED <<db0, runs, inputVars, mainVars, orgVars, mtx, stats, panicking, locals, pureVars>>

\* insert into identities(...); id is the table's key.
WIdInsert(u) ==
    LET w == ws[u]
        rec == Rec(u)
        identity == rec.Identities[w.i]
        fatal == \E r \in db.identities : r.id = identity.ID
    IN  /\ pc = "fan"
        /\ w.pc = "id_ins"
        /\ db' = IF fatal THEN db
                 ELSE [db EXCEPT !.identities = @ \cup {IdentityRow(identity)}]
        /\ ws' = [ws EXCEPT ![u] =
                    IF fatal
                    THEN Failed([w EXCEPT !.ops = Append(@, Op("identity", w.i, "insert"))])
                    ELSE [w EXCEPT !.sts = Inc(@, "identitiesAdded"),
                                   !.i = @ + 1,
                                   !.pc = IdentitiesFrom(rec, w.i + 1),
                                   !.ops = Append(@, Op("identity", w.i, "insert"))]]
        /\ pc' = MainAfter(fatal)
        /\ UNCHANGED <<db0, runs, inputVars, todo, fileIdx, nThreads, orgVars, mtx, stats,
                       panicking, locals, pureVars>>

\* The shEnrollment an enrollments row scans into in compare mode, with the
\* organization name looked up in id2comp.
ScanEnrollment(r) ==
    [UUID |-> r.uuid, Organization |-> id2comp[r.organization_id],
     OrgID |-> r.organization_id, Start |-> r.start, End |-> r.end,
     ProjectSlug |-> r.project_slug]

\* getCompIds: OrgID of every incoming enrollment whose organization is in
\* comp2id; an unknown organization is left as it is in read-only mode.
getCompIds(enrollments) ==
    [j \in 1..Len(enrollments) |->
        IF Has(comp2id, enrollments[j].Organization)
        THEN [enrollments[j] EXCEPT !.OrgID = comp2id[enrollments[j].Organization]]
        ELSE enrollments[j]]

\* ... and it is fatal otherwise.
getCompIdsFatal(enrollments) ==
    /\ ~env.orgsRO
    /\ \E j \in 1..Len(enrollments) : ~Has(comp2id, enrollments[j].Organization)

EnrollmentsFrom(enr, j) == IF j <= Len(enr) THEN "enr_ins" ELSE MergeStart

\* select ... from enrollments where uuid = ? and project_slug ..., the scan
\* of the rows and, in compare mode, the comparison.
WEnrQuery(u) ==
    LET w == ws[u]
        rec == Rec(u)
        rows == SelectSeq(db.enrollments,
                          LAMBDA r : EnrollmentMatch(r, rec.UUID, env.slug))
        fetched == rows # <<>>
        noName == env.compare
                  /\ \E k \in 1..Len(rows) : ~Has(id2comp, rows[k].organization_id)
        existing == IF env.compare /\ ~noName
                    THEN [k \in 1..Len(rows) |-> ScanEnrollment(rows[k])]
                    ELSE <<>>
        calc == fetched /\ env.compare
        enr == IF calc THEN getCompIds(rec.Enrollments) ELSE rec.Enrollments
        fatal == noName \/ (calc /\ getCompIdsFatal(rec.Enrollments))
        same == calc /\ ~fatal /\ ~enrollmentsDiffer(enr, existing)
        s1 == IF fetched THEN Inc(w.sts, "enrollmentsFound") ELSE w.sts
        s2 == IF same THEN Inc(s1, "enrollmentsSame") ELSE s1
    IN  /\ pc = "fan"
        /\ w.pc = "enr_q"
        /\ ws' = [ws EXCEPT ![u] =
                    IF fatal THEN Failed(w)
                    ELSE [w EXCEPT !.fetched = fetched, !.same = same, !.sts = s2,
                                   !.existing = existing, !.enr = enr, !.calc = calc,
                                   !.i = 1,
                                   !.dec = Append(@, Dec("enrollment", 0, fetched, same)),
                                   !.pc = AfterLookup(fetched, same, "enr_del",
                                            EnrollmentsFrom(enr, 1), MergeStart)]]
        /\ pc' = MainAfter(fatal)
        /\ UNCHANGED <<storeVars, inputVars, todo, fileIdx, nThreads, orgVars, mtx, stats,
                       panicking, locals, pureVars>>

\* delete from enrollments where uuid = ? and project_slug ...
WEnrDelete(u) ==
    LET w == ws[u]
        rec == Rec(u)
    IN  /\ pc = "fan"
        /\ w.pc = "enr_del"
        /\ db' = [db EXCEPT !.enrollments =
                    SelectSeq(@, LAMBDA r : ~EnrollmentMatch(r, rec.UUID, env.slug))]
        /\ ws' = [ws EXCEPT ![u] =
                    [w EXCEPT !.sts = Inc(@, "enrollmentsDeleted"),
                              !.pc = AfterDelete(w, EnrollmentsFrom(w.enr, 1), MergeStart),
                              !.ops = Append(@, Op("enrollment", 0, "delete"))]]
        /\ UNCHANGED <<db0, runs, inputVars, mainVars, orgVars, mtx, stats, panicking, locals, pureVars>>

\* One iteration of the insert loop (before the first, getCompIds if it was
\* not called yet): an enrollment with no organization id is skipped in
\* read-only mode, any other is inserted under the configured slug.
WEnrInsert(u) ==
    LET w == ws[u]
        enr == IF w.calc THEN w.enr ELSE getCompIds(w.enr)
        fatal == ~w.calc /\ getCompIdsFatal(w.enr)
        e == enr[w.i]
        skip == env.orgsRO /\ e.OrgID <= 0
    IN  /\ pc = "fan"
        /\ w.pc = "enr_ins"
        /\ db' = IF fatal \/ skip THEN db
                 ELSE [db EXCEPT !.enrollments = Append(@, EnrollmentRow(e, env.slug))]
        /\ ws' = [ws EXCEPT ![u] =
                    IF fatal THEN Failed(w)
                    ELSE [w EXCEPT !.enr = enr, !.calc = TRUE, !.i = @ + 1,
                                   !.sts = Inc(@, IF skip THEN "enrollmentsSkipped"
                                                  ELSE "enrollmentsAdded"),
                                   !.ops = IF skip THEN @
                                           ELSE Append(@, Op("enrollment", w.i, "insert")),
                                   !.pc = EnrollmentsFrom(enr, w.i + 1)]]
        /\ pc' = MainAfter(fatal)
        /\ UNCHANGED <<db0, runs, inputVars, todo, fileIdx, nThreads, orgVars, mtx, stats,
                       panicking, locals, pureVars>>

\* mtx.Lock()
WLock(u) ==
    /\ pc = "fan"
    /\ ws[u].pc = "lock"
    /\ mtx = ""
    /\ mtx' = u
    /\ ws' = [ws EXCEPT ![u].pc = "merge"]
    /\ UNCHANGED <<storeVars, inputVars, mainVars, orgVars, stats, panicking, locals, pureVars>>

\* stats.x += sts.x, for every counter
WMerge(u) ==
    /\ pc = "fan"
    /\ ws[u].pc = "merge"
    /\ stats' = AddStats(stats, ws[u].sts)
    /\ ws' = [ws EXCEPT ![u].pc = IF env.thrN > 1 THEN "unlock" ELSE "done"]
    /\ UNCHANGED <<storeVars, inputVars, mainVars, orgVars, mtx, panicking, locals, pureVars>>

\* Mutant of DeferredSend: a worker returns without its completion signal.
DeferredSendNone == "done"

\* "defer func() { if ch != nil { ch <- struct{}{} } }()": a worker that
\* returns stands in the send until the scheduler receives.
DeferredSend == "send"

\* mtx.Unlock(); the worker returns and its deferred send is next.
WUnlock(u) ==
    /\ pc = "fan"
    /\ ws[u].pc = "unlock"
    /\ mtx' = ""
    /\ ws' = [ws EXCEPT ![u].pc = DeferredSend]
    /\ UNCHANGED <<storeVars, inputVars, mainVars, orgVars, stats, panicking, locals, pureVars>>

(***************************************************************************)
(* The scheduler of importJSONfiles.                                       *)
(***************************************************************************)
\* The sum of "var sts importStats" over the workers in S.
RECURSIVE LocalStats(_)
LocalStats(S) ==
    IF S = {} THEN ZeroStats
    ELSE LET u == CHOOSE x \in S : TRUE
         IN  AddStats(ws[u].sts, LocalStats(S \ {u}))

Quiet == \A u \in DOMAIN ws : ws[u].pc \in {"idle", "done"}

\* "for _, uidentities := range uidentitiesAry": the next file, or the end.
NextFile ==
    /\ pc = "fan"
    /\ todo = {}
    /\ nThreads = 0
    /\ env.thrN = 1 => Quiet
    /\ IF fileIdx < Len(files)
       THEN /\ fileIdx' = fileIdx + 1
            /\ todo' = {r.UUID : r \in files[fileIdx + 1]}
            /\ ws' = [u \in {r.UUID : r \in files[fileIdx + 1]} |->
                        [IdleWorker EXCEPT !.enr = (CHOOSE r \in files[fileIdx + 1] :
                                                       r.UUID = u).Enrollments]]
            /\ pc' = pc
       ELSE /\ pc' = "stats"
            /\ UNCHANGED <<fileIdx, todo, ws>>
    /\ locals' = AddStats(locals, LocalStats(DOMAIN ws))
    /\ UNCHANGED <<storeVars, inputVars, nThreads, orgVars, mtx, stats, panicking, pureVars>>

\* Mutant of MayLaunch: the loop does not wait for a signal when thrN are in flight.
MayLaunchUnbounded == TRUE

\* The launch loop is not blocked in "<-ch".
MayLaunch == nThreads < env.thrN

\* go processUIdentity(ch, ...); nThreads++
Launch(u) ==
    /\ pc = "fan"
    /\ env.thrN > 1
    /\ u \in todo
    /\ MayLaunch
    /\ todo' = todo \ {u}
    /\ nThreads' = nThreads + 1
    /\ ws' = [ws EXCEPT ![u].pc = "uid_q"]
    /\ UNCHANGED <<storeVars, inputVars, pc, fileIdx, orgVars, mtx, stats, panicking, locals, pureVars>>

\* "<-ch; nThreads--": the send of a worker that returned or is panicking.
Recv(u) ==
    /\ pc = "fan"
    /\ env.thrN > 1
    /\ ~MayLaunch \/ todo = {}
    /\ ws[u].pc \in {"send", "panic_send"}
    /\ nThreads' = nThreads - 1
    /\ panicking' = (panicking \/ ws[u].pc = "panic_send")
    /\ ws' = [ws EXCEPT ![u].pc = "done"]
    /\ UNCHANGED <<storeVars, inputVars, pc, todo, fileIdx, orgVars, mtx, stats, locals,
                   pureVars>>

\* Single-threaded: processUIdentity(nil, ...), called when the previous call returned.
Call(u) ==
    /\ pc = "fan"
    /\ env.thrN = 1
    /\ u \in todo
    /\ Quiet
    /\ todo' = todo \ {u}
    /\ ws' = [ws EXCEPT ![u].pc = "uid_q"]
    /\ UNCHANGED <<storeVars, inputVars, pc, fileIdx, nThreads, orgVars, mtx, stats,
                   panicking, locals, pureVars>>

\* The panic of a worker goroutine ends the process.
Crash ==
    /\ panicking
    /\ pc # "aborted"
    /\ pc' = "aborted"
    /\ UNCHANGED <<storeVars, inputVars, todo, fileIdx, nThreads, orgVars, workVars,
                   pureVars>>

\* fmt.Printf("Stats: ...")
PrintStats ==
    /\ pc = "stats"
    /\ pc' = "done"
    /\ UNCHANGED <<storeVars, inputVars, todo, fileIdx, nThreads, orgVars, workVars,
                   pureVars>>

\* The operator runs the program again on the same files, with the same
\* environment, against the store the previous run left.
Restart ==
    /\ runs + 1 < env.invocations
    /\ ~panicking
    /\ runs' = runs + 1
    /\ pc' = "start"
    /\ todo' = {}
    /\ fileIdx' = 0
    /\ nThreads' = 0
    /\ comp2id' = EmptyMap
    /\ id2comp' = EmptyMap
    /\ lcomp2id' = EmptyMap
    /\ orgNamesMappings' = <<>>
    /\ orgsLoaded' = FALSE
    /\ missingOrgs' = {}
    /\ orgsAdded' = 0
    /\ mut' = <<>>
    /\ rs' = EmptyMap
    /\ mtx' = ""
    /\ ws' = EmptyMap
    /\ stats' = ZeroStats
    /\ locals' = ZeroStats
    /\ UNCHANGED <<db, db0, inputVars, panicking, pureVars>>

\* The run has completed and the operator starts the next one.
Rerun ==
    /\ pc = "done"
    /\ ~env.kill
    /\ Restart

\* The process is killed between two statements of a worker (what it did is
\* committed, statement by statement); the operator then starts the next run.
Interrupt ==
    /\ pc = "fan"
    /\ env.kill
    /\ \E u \in DOMAIN ws : ws[u].pc \notin {"idle", "done"}
    /\ Restart

Next ==
    \/ Start
    \/ \E comp \in todo : AddOrg(comp)
    \/ OrgsDone
    \/ \E code \in todo : AddCountry(code)
    \/ CountriesDone
    \/ \E o \in DOMAIN rs : ROLaunch(o)
    \/ \E o \in DOMAIN rs : RORecv(o)
    \/ \E o \in DOMAIN rs : ROCall(o)
    \/ \E o \in DOMAIN rs : POExact(o)
    \/ \E o \in DOMAIN rs : POLower(o)
    \/ \E o \in DOMAIN rs : POLowerWrite(o)
    \/ \E o \in DOMAIN rs : POCheck(o)
    \/ \E o \in DOMAIN rs : POLoadLock(o)
    \/ \E o \in DOMAIN rs : POFill(o)
    \/ \E o \in DOMAIN rs : POLoadDone(o)
    \/ \E o \in DOMAIN rs : PORange(o)
    \/ \E o \in DOMAIN rs : PORule(o)
    \/ \E o \in DOMAIN rs : POMissing(o)
    \/ NextFile
    \/ \E u \in DOMAIN ws : Launch(u)
    \/ \E u \in DOMAIN ws : Recv(u)
    \/ \E u \in DOMAIN ws : Call(u)
    \/ \E u \in DOMAIN ws : WUidQuery(u)
    \/ \E u \in DOMAIN ws : WUidInsert(u)
    \/ \E u \in DOMAIN ws : WProfQuery(u)
    \/ \E u \in DOMAIN ws : WProfDelete(u)
    \/ \E u \in DOMAIN ws : WProfInsert(u)
    \/ \E u \in DOMAIN ws : WIdQuery(u)
    \/ \E u \in DOMAIN ws : WIdDelete(u)
    \/ \E u \in DOMAIN ws : WIdInsert(u)
    \/ \E u \in DOMAIN ws : WEnrQuery(u)
    \/ \E u \in DOMAIN ws : WEnrDelete(u)
    \/ \E u \in DOMAIN ws : WEnrInsert(u)
    \/ \E u \in DOMAIN ws : WLock(u)
    \/ \E u \in DOMAIN ws : WMerge(u)
    \/ \E u \in DOMAIN ws : WUnlock(u)
    \/ Crash
    \/ PrintStats
    \/ Rerun
    \/ Interrupt

(***************************************************************************)
(* Inputs: the values the initial states are built from.                   *)
(***************************************************************************)
sAcmeInc == <<65, 99, 109, 101, 32, 73, 110, 99>>        \* "Acme Inc"
sAcmeCorp == <<65, 99, 109, 101, 32, 67, 111, 114, 112>> \* "Acme Corp"
sInitech == <<73, 110, 105, 116, 101, 99, 104>>          \* "Initech"
sZoe == <<90, 111, 101>>                                 \* "Zoe"
sZoeAcc == <<90, 111, 233>>                              \* "Zoe" with e acute
sZoeSz == <<90, 111, 101, 223>>                          \* "Zoe" followed by sharp s
sAl == <<65, 108>>                                       \* "Al"
sMail == <<122, 64, 120>>                                \* "z@x"
sZed == <<122>>                                          \* "z"
sUS == <<85, 83>>                                        \* "US"
sUSA == <<85, 83, 65>>                                   \* "USA"

\* The rule ("^Acme.*", "Acme Inc").
rAcme == <<<<94, 65, 99, 109, 101, 46, 42>>, sAcmeInc>>

\* ("^Acme C.*", "Initech") and ("^acme.*", "initech").
rAcmeC == <<<<94, 65, 99, 109, 101, 32, 67, 46, 42>>, sInitech>>

rAcmeLower == <<<<94, 97, 99, 109, 101, 46, 42>>, ToLower(sInitech)>>

\* ("^acme.*", "Initech"): the canonical name as the registry writes it.
rAcmeInitech == <<<<94, 97, 99, 109, 101, 46, 42>>, sInitech>>

Day(n) == n * SecondsPerDay

Env(replace, compare, orgsRO, slug, thrN, orgsMap, invocations) ==
    [replace |-> replace, compare |-> compare, orgsRO |-> orgsRO, dry |-> FALSE,
     kill |-> FALSE,
     slug |-> slug, thrN |-> thrN, orgsMap |-> orgsMap, invocations |-> invocations]

Prof(name, email, gender, acc, bot, country) ==
    [Name |-> name, Email |-> email, Gender |-> gender, GenderAcc |-> acc, IsBot |-> bot,
     Country |-> country, CountryCode |-> NilStr]

Ident(uuid, id, source, name, email, username) ==
    [UUID |-> uuid, ID |-> id, Source |-> source, Name |-> name, Email |-> email,
     Username |-> username]

Enr(uuid, org, start, end) ==
    [UUID |-> uuid, Organization |-> org, Start |-> start, End |-> end, OrgID |-> 0,
     ProjectSlug |-> nils]

UId(uuid, profile, identities, enrollments) ==
    [UUID |-> uuid, Profile |-> profile, Identities |-> identities,
     Enrollments |-> enrollments]

ERow(uuid, orgId, start, end, slug) ==
    [uuid |-> uuid, organization_id |-> orgId, start |-> start, end |-> end,
     project_slug |-> slug]

Db(uidentities, profiles, identities, enrollments, organizations) ==
    [uidentities |-> uidentities, profiles |-> profiles, identities |-> identities,
     enrollments |-> enrollments, organizations |-> organizations, countries |-> {}]

Scenario(e, fs, d) == [env |-> e, files |-> fs, bad |-> {}, db |-> d]

Reg1 == {[id |-> 1, name |-> sAcmeInc]}

Reg2 == Reg1 \cup {[id |-> 2, name |-> sInitech]}

pZoe == Prof(sZoeAcc, sMail, "female", 90, 0, sUSA)

pNone == Prof(NilStr, NilStr, nils, NilInt, NilInt, NilStr)

\* Scenarios with two workers or resolvers at a time, and a second invocation.
CoreScenarios ==
    LET iNew(u) == Ident(u, "i9", "git", sZoe, sMail, sZed)
        u1 == UId("u1", pZoe, <<iNew("u1")>>, <<Enr("u1", sAcmeCorp, Day(1), Day(2))>>)
        u2 == UId("u2", Prof(sAl, NilStr, nils, NilInt, NilInt, NilStr), <<iNew("u2")>>,
                  <<Enr("u2", ToLower(sAcmeInc), Day(1), Day(2)),
                    Enr("u2", sInitech, Day(2), Day(3))>>)
        stored == Db({"u1"}, {ProfileRow("u1", Prof(sAl, sMail, "male", 90, 0, sUS))},
                     {IdentityRow(Ident("u1", "i1", "git", sAl, sMail, sZed))},
                     <<ERow("u1", 1, Day(1), Day(3), nils)>>, Reg1)
    IN  {Scenario(Env(b, b, TRUE, nils, 2, <<rAcme>>, 1), <<{u1, u2}>>, stored) :
            b \in BOOLEAN} \cup
        {
         Scenario(Env(TRUE, FALSE, TRUE, nils, 1, <<rAcme>>, 1), <<{u1}>>, stored),
         Scenario(Env(TRUE, TRUE, FALSE, nils, 1, <<>>, 2), <<{u1}, {u2}>>, stored),
         Scenario([Env(TRUE, TRUE, FALSE, nils, 1, <<>>, 1) EXCEPT !.dry = TRUE],
                  <<{u1}>>, stored),
         Scenario(Env(FALSE, FALSE, FALSE, nils, 2, <<>>, 1),
                  <<{UId(u, pNone, <<>>, <<>>) : u \in {"u1", "u2", "u3"}}>>,
                  Db({}, {}, {}, <<>>, Reg1)),
         \* a stored enrollment of u1 names organization id 7, which no row has
         Scenario(Env(FALSE, TRUE, FALSE, nils, 2, <<>>, 1),
                  <<{UId(u, pNone, <<>>, <<>>) : u \in {"u1", "u2"}}>>,
                  Db({"u1"}, {}, {}, <<ERow("u1", 7, Day(1), Day(2), nils)>>, Reg1))}
        \cup
        \* read-only mode: the first enrollment names an organization that
        \* nothing resolves, the second a registered one; shEnrollment.OrgID
        \* has no json tag, so a file may carry it ("OrgID": 9)
        {Scenario(Env(FALSE, FALSE, TRUE, nils, n, <<>>, 1),
                  <<{UId("u1", pNone, <<>>,
                         <<[Enr("u1", sInitech, Day(1), Day(2)) EXCEPT !.OrgID = k],
                           Enr("u1", sAcmeInc, Day(2), Day(3))>>)}>>,
                  Db({}, {}, {}, <<>>, Reg1)) : n \in 1..2, k \in {0, 9}}
        \cup
        \* default mode: the organization of the batch is not registered, its
        \* stripped name is or is not
        {Scenario(Env(FALSE, FALSE, FALSE, nils, 1, <<>>, 1),
                  <<{UId("u1", pNone, <<>>, <<Enr("u1", sZoeSz, Day(1), Day(2))>>)}>>,
                  Db({}, {}, {}, <<>>, Reg1 \cup more)) :
            more \in {{}, {[id |-> 2, name |-> sZoe]}}}
        \cup
        \* replace mode, two threads: the identity of the record of u1 is
        \* stored as an identity of u2
        {Scenario(Env(TRUE, FALSE, FALSE, nils, 2, <<>>, 1),
                  <<{UId("u1", pNone, <<Ident("u1", "i1", "git", sZoe, sMail, sZed)>>, <<>>),
                     UId("u2", pNone, <<>>, <<>>)}>>,
                  Db({"u1", "u2"}, {},
                     {IdentityRow(Ident("u2", "i1", "git", sZoe, sMail, sZed))}, <<>>, Reg1))}
        \cup
        \* one of two files cannot be read or parsed
        {[Scenario(Env(TRUE, FALSE, ro, nils, n, <<rAcme>>, 1), <<{u1}, {u2}>>, stored)
            EXCEPT !.bad = {i}] : ro \in BOOLEAN, n \in 1..2, i \in 1..2}

\* The record the sequential scenarios import.
iZoe == Ident("u1", "i1", "git", sZoeAcc, sMail, sZed)

iNoName == Ident("u1", "i1", "git", NilStr, sMail, sZed)

eAcme == Enr("u1", sAcmeInc, Day(1), Day(2) + 3600)

StoredProfiles(tag) ==
    CASE tag = "none" -> {}
      [] tag = "same" -> {ProfileRow("u1", pZoe)}
      [] tag = "gender" -> {[ProfileRow("u1", pZoe) EXCEPT !.gender = "male"]}
      [] tag = "name" -> {[ProfileRow("u1", pZoe) EXCEPT !.name = sAl]}
      [] tag = "raw" -> {[ProfileRow("u1", pZoe) EXCEPT !.name = sZoeAcc, !.country_code = sUS]}

IncomingIdentity(tag) == IF tag = "aliasnil" THEN iNoName ELSE iZoe

StoredIdentities(tag) ==
    CASE tag = "none" -> {}
      [] tag = "same" -> {IdentityRow(iZoe)}
      [] tag = "name" -> {[IdentityRow(iZoe) EXCEPT !.name = sAl]}
      [] tag = "alias" -> {[IdentityRow(iZoe) EXCEPT !.id = "i2"]}
      [] tag = "aliasnil" -> {[IdentityRow(iNoName) EXCEPT !.id = "i2"]}
      [] tag = "other" -> {[IdentityRow(iZoe) EXCEPT !.id = "i2", !.source = "jira"]}

\* Rows of u1 under every slug but the configured one, then the rows under it.
StoredEnrollments(tag, slug) ==
    LET others == SelectSeq(<<ERow("u1", 1, Day(1), Day(5), nils),
                              ERow("u1", 1, Day(1), Day(5), "x"),
                              ERow("u1", 1, Day(1), Day(5), "y")>>,
                            LAMBDA r : r.project_slug # slug)
        own == CASE tag = "none" -> <<>>
                 [] tag = "same" -> <<ERow("u1", 1, Day(1), Day(2) + 3600, slug)>>
                 [] tag = "secs" -> <<ERow("u1", 1, Day(1), Day(2) + 7200, slug)>>
                 [] tag = "day" -> <<ERow("u1", 1, Day(1), Day(3), slug)>>
                 [] tag = "two" -> <<ERow("u1", 1, Day(1), Day(2), slug),
                                     ERow("u1", 1, Day(3), Day(4), slug)>>
    IN  others \o own

Variants ==
    {<<p, "same", "same">> : p \in {"none", "gender", "name", "raw"}}
      \cup {<<"same", i, "same">> : i \in {"none", "same", "name", "alias", "aliasnil", "other"}}
      \cup {<<"same", "same", e>> : e \in {"none", "secs", "day", "two"}}
      \cup {<<"none", "none", "none">>, <<"gender", "name", "day">>}

\* One record, one worker at a time, the program invoked twice.
FocusScenarios ==
    {Scenario(Env(replace, compare, FALSE, slug, 1, <<>>, 2),
              <<{UId("u1", pZoe, <<IncomingIdentity(v[2])>>, <<eAcme>>)}>>,
              Db(IF v = <<"none", "none", "none">> THEN {} ELSE {"u1"},
                 StoredProfiles(v[1]), StoredIdentities(v[2]),
                 StoredEnrollments(v[3], slug), Reg1)) :
        replace \in BOOLEAN, compare \in BOOLEAN, slug \in {nils, "x"}, v \in Variants}

\* The first invocation is killed at some point of its worker, the second
\* one runs in replace mode.
KillScenarios ==
    {[Scenario(Env(TRUE, compare, FALSE, slug, 1, <<>>, 2),
               <<{UId("u1", pZoe, <<IncomingIdentity(v[2])>>, <<eAcme>>)}>>,
               Db(IF v = <<"none", "none", "none">> THEN {} ELSE {"u1"},
                  StoredProfiles(v[1]), StoredIdentities(v[2]),
                  StoredEnrollments(v[3], slug), Reg1))
        EXCEPT !.env.kill = TRUE] :
        compare \in BOOLEAN, slug \in {nils, "x"},
        v \in {<<"none", "none", "none">>, <<"name", "name", "day">>,
                <<"gender", "name", "day">>}}

\* Read-only resolution of "Acme Corp", one thread, with two rules that both
\* apply to it.
RuleOrderScenarios ==
    {Scenario(Env(TRUE, FALSE, TRUE, nils, 1, rules, 1),
              <<{UId("u1", pZoe, <<>>, <<Enr("u1", sAcmeCorp, Day(1), Day(2))>>)}>>,
              Db({}, {}, {}, <<>>, Reg2)) :
        rules \in {<<rAcme, rAcmeC>>, <<rAcmeC, rAcme>>, <<rAcmeLower, rAcme>>,
                   <<rAcmeLower>>, <<rAcmeInitech>>}}

\* One record whose identities lack the email and the username; the store
\* holds rows with the same values under other ids and a row with the id of
\* the second identity.
iNoMail == Ident("u1", "i1", "git", sZoe, NilStr, sZed)

iNoUser == Ident("u1", "i3", "git", sZoe, sMail, NilStr)

NullScenarios ==
    {Scenario(Env(replace, compare, FALSE, nils, 1, <<>>, 1),
              <<{UId("u1", pZoe, <<iNoMail, iNoUser>>, <<>>)}>>,
              Db({"u1"}, {},
                 {[IdentityRow(iNoMail) EXCEPT !.id = "i2"],
                  [IdentityRow(iNoUser) EXCEPT !.id = "i4"],
                  [IdentityRow(iNoUser) EXCEPT !.name = sAl]},
                 <<>>, Reg1)) :
        replace \in BOOLEAN, compare \in BOOLEAN}

\* The two-thread scenarios, and those with an unreadable file, with DRY set.
DryScenarios ==
    {[sc EXCEPT !.env.dry = TRUE] :
        sc \in {c \in CoreScenarios : c.env.thrN = 2 \/ c.bad # {}}}

InitWith(scenarios) ==
    /\ \E sc \in scenarios :
         /\ env = sc.env
         /\ files = sc.files
         /\ unreadable = sc.bad
         /\ db = sc.db
         /\ db0 = sc.db
    /\ runs = 0
    /\ InitRun
    /\ dArgs = <<>>
    /\ dRes = "?"

Init == InitWith(CoreScenarios \cup FocusScenarios \cup KillScenarios \cup RuleOrderScenarios
                 \cup NullScenarios \cup DryScenarios)

Spec == Init /\ [][Next]_vars

\* The Go scheduler runs every goroutine that can take a step: the program
\* does not stop while a step is possible.
SpecFair == Spec /\ WF_vars(Next)

(***************************************************************************)
(* Properties.                                                             *)
(***************************************************************************)
\* The phase a lookup or a mutation belongs to: enrollments are one phase,
\* every identity of the record is a phase of its own.
SamePhase(a, b) == a.t = b.t /\ (a.t = "identity" => a.k = b.k)

\* Positions in a worker's ops of the mutations of kind op in the phase of d.
Issued(w, d, op) == {n \in 1..Len(w.ops) : SamePhase(w.ops[n], d) /\ w.ops[n].op = op}

\* The worker has left the phase of its n-th lookup behind.
PhaseOver(w, n) == n < Len(w.dec) \/ w.pc \in {"lock", "merge", "unlock", "send", "done"}

\* The decision table of the specification, row by row.
TableDelete(d) == d.fetched /\ env.replace /\ (~env.compare \/ ~d.same)

TableInsert(d) == ~d.fetched \/ TableDelete(d)

TableNothing(d) ==
    \/ d.fetched /\ ~env.compare /\ ~env.replace
    \/ d.fetched /\ env.compare /\ d.same
    \/ d.fetched /\ env.compare /\ ~d.same /\ ~env.replace

\* An enrollment phase inserts one row per incoming enrollment it does not
\* skip; w.i is the next enrollment of the insert loop.
Insertable(w, d) ==
    d.t = "enrollment" =>
        \E j \in 1..Len(w.enr) : ~(env.orgsRO /\ w.enr[j].OrgID <= 0)

\* C1: in the profile, identity and enrollment phases the mutations follow
\* the decision table: nothing fetched - insert and no delete; fetched and
\* (compare off, replace off), or judged same, or judged different with
\* replace off - no mutation; fetched, replace on and (compare off or judged
\* different) - one delete and then the insert.
C1_DecisionTable ==
    \A u \in DOMAIN ws : \A n \in 1..Len(ws[u].dec) :
        LET w == ws[u]
            d == w.dec[n]
            del == Issued(w, d, "delete")
            ins == Issued(w, d, "insert")
        IN  /\ d.same => d.fetched /\ env.compare
            /\ TableNothing(d) <=> ~TableInsert(d)
            /\ del # {} => TableDelete(d)
            /\ ins # {} => TableInsert(d)
            /\ Cardinality(del) <= 1
            /\ d.t # "enrollment" => Cardinality(ins) <= 1
            /\ \A a \in del, b \in ins : a < b
            /\ PhaseOver(w, n) =>
                 /\ TableDelete(d) => del # {}
                 /\ TableInsert(d) /\ Insertable(w, d) => ins # {}

\* A worker that replaced a profile judged different, left alone an identity
\* judged same, and is done.
C1_Witness ==
    \E u \in DOMAIN ws :
        LET w == ws[u]
        IN  /\ w.pc = "done"
            /\ env.compare /\ env.replace
            /\ \E n \in 1..Len(w.dec) :
                 /\ w.dec[n] = Dec("profile", 0, TRUE, FALSE)
                 /\ Issued(w, w.dec[n], "delete") # {}
                 /\ Issued(w, w.dec[n], "insert") # {}
            /\ \E n \in 1..Len(w.dec) :
                 /\ w.dec[n] = Dec("identity", 1, TRUE, TRUE)
                 /\ Issued(w, w.dec[n], "insert") = {}

\* C2: on the second run over the same batch in compare mode nothing is
\* added, nothing is deleted, and every profile, identity and enrollment
\* found is judged same.
C2_SecondRunIdempotent ==
    runs = 1 /\ ~env.kill /\ env.compare /\ pc = "done" =>
        /\ stats.uidentitiesAdded = 0
        /\ stats.profilesAdded = 0 /\ stats.profilesDeleted = 0
        /\ stats.identitiesAdded = 0 /\ stats.identitiesDeleted = 0
        /\ stats.enrollmentsAdded = 0 /\ stats.enrollmentsDeleted = 0
        /\ stats.profilesFound = stats.profilesSame
        /\ stats.identitiesFound = stats.identitiesSame
        /\ stats.enrollmentsFound = stats.enrollmentsSame

\* The profile rows of uuid in store d.
ProfilesOf(d, uuid) == {r \in d.profiles : r.uuid = uuid}

\* C3: with replace on (compare on or off), a record whose stored profile
\* differs from the incoming one in any field gets exactly one profile
\* delete and one profile insert, and the stored row is then the incoming
\* profile after normalization.
C3_ReplaceCorrect ==
    \A u \in DOMAIN ws :
        LET w == ws[u]
            p == Dec("profile", 0, TRUE, FALSE)
            incoming == ProfileRow(u, Rec(u).Profile)
        IN  /\ runs = 0 /\ env.replace /\ w.pc = "done"
            /\ ProfilesOf(db0, u) # {}
            /\ incoming \notin ProfilesOf(db0, u)
            => /\ Cardinality(Issued(w, p, "delete")) = 1
               /\ Cardinality(Issued(w, p, "insert")) = 1
               /\ ProfilesOf(db, u) = {incoming}

\* C4: with replace off and compare off, no profile row is deleted or
\* inserted for a record that has a stored profile, whatever the incoming
\* profile is, and the stored row stays as it was.
C4_KeepProfile ==
    \A u \in DOMAIN ws :
        ~env.replace /\ ~env.compare /\ ProfilesOf(db0, u) # {} =>
            /\ \A n \in 1..Len(ws[u].ops) : ws[u].ops[n].t # "profile"
            /\ ProfilesOf(db, u) = ProfilesOf(db0, u)

\* A worker is done with a record whose stored profile is not the incoming one.
C4_Witness ==
    \E u \in DOMAIN ws :
        /\ ~env.replace /\ ~env.compare
        /\ ws[u].pc = "done"
        /\ Dec("profile", 0, TRUE, FALSE) \in Range(ws[u].dec)
        /\ ProfilesOf(db0, u) # {}
        /\ ProfileRow(u, Rec(u).Profile) \notin ProfilesOf(db0, u)

\* The (name, email, username, source) tuple of a stored identity row, and
\* the normalized tuple of an incoming identity.
RowTuple(r) == <<r.name, r.email, r.username, r.source>>

NormalizedTuple(identity) == RowTuple(IdentityRow(identity))

\* C5: an incoming identity whose id is the id of no stored row, but whose
\* normalized (name, email, username, source) tuple is that of a stored row,
\* is counted as found, and with replace off it is not inserted.
C5_AliasFound ==
    \A u \in DOMAIN ws : \A n \in 1..Len(ws[u].dec) :
        LET w == ws[u]
            d == w.dec[n]
            identity == Rec(u).Identities[d.k]
        IN  /\ runs = 0 /\ d.t = "identity"
            /\ \A r \in db0.identities : r.id # identity.ID
            /\ \E r \in db0.identities : RowTuple(r) = NormalizedTuple(identity)
            => /\ d.fetched
               /\ ~env.replace => Issued(w, d, "insert") = {}

(***************************************************************************)
(* enrollmentsDiffer on its own: the argument lists are drawn from a small *)
(* universe of enrollments, and Compare applies the function to them.      *)
(***************************************************************************)
EnrUniverse ==
    {Enr("u1", sAcmeInc, Day(1), Day(2)), Enr("u1", sAcmeInc, Day(1), Day(2) + 3600),
     Enr("u1", sAcmeInc, Day(1), Day(3)), Enr("u1", sInitech, Day(1), Day(2)),
     Enr("u1", sAcmeInc, Day(1) + 3600, Day(2))}

EnrLists == UNION {[1..n -> EnrUniverse] : n \in 0..MaxEnr}

Answer(e1, e2) == IF enrollmentsDiffer(e1, e2) THEN "differ" ELSE "same"

Compare ==
    /\ dRes = "?"
    /\ dArgs # <<>>
    /\ dRes' = Answer(dArgs[1], dArgs[2])
    /\ UNCHANGED <<storeVars, inputVars, mainVars, orgVars, workVars, dArgs>>

InitDiffer ==
    /\ env = Env(FALSE, TRUE, FALSE, nils, 1, <<>>, 1)
    /\ files = <<>>
    /\ unreadable = {}
    /\ db = Db({}, {}, {}, <<>>, {})
    /\ db0 = db
    /\ runs = 0
    /\ InitRun
    /\ dArgs \in EnrLists \X EnrLists
    /\ dRes = "?"

NextDiffer == Compare

SpecDiffer == InitDiffer /\ [][NextDiffer]_vars

\* C6: enrollmentsDiffer gives the same answer for every permutation of
\* either argument, and it reports a difference between two one-element
\* lists that agree on organization and start and whose end dates are one
\* day apart.
C6_SetEquality ==
    dRes # "?" =>
        /\ \A p1 \in Perms(dArgs[1]), p2 \in Perms(dArgs[2]) : Answer(p1, p2) = dRes
        /\ /\ Len(dArgs[1]) = 1 /\ Len(dArgs[2]) = 1
           /\ dArgs[1][1].Organization = dArgs[2][1].Organization
           /\ dArgs[1][1].Start = dArgs[2][1].Start
           /\ dArgs[1][1].End - dArgs[2][1].End \in {SecondsPerDay, 0 - SecondsPerDay}
           => dRes = "differ"

\* Compare has answered for two one-element lists whose ends are a day apart.
C6_Witness ==
    /\ dRes = "differ"
    /\ dArgs = <<<<Enr("u1", sAcmeInc, Day(1), Day(2))>>,
                 <<Enr("u1", sAcmeInc, Day(1), Day(3))>>>>

\* The rules of the rules file whose pattern matches name and whose
\* canonical name is in the registry the run started with.
RulesFor(name) ==
    {k \in 1..Len(env.orgsMap) :
        /\ Regexp(name, Unescape(env.orgsMap[k][1]))
        /\ env.orgsMap[k][2] \in OrgNames(db0)}

\* Read-only resolution of the batch's names is over.
Resolved == env.orgsRO /\ unreadable = {} /\ pc \notin {"start", "orgs_ro"}

\* C7: in read-only mode a name with no exact and no case-insensitive match
\* in the registry, matched by the pattern of a rule whose canonical name is
\* in the registry, is resolved to the id of that canonical name.
C7_RegexFallback ==
    Resolved =>
        \A o \in BatchOrgs(files) :
            /\ o \notin OrgNames(db0)
            /\ ToLower(o) \notin {ToLower(n) : n \in OrgNames(db0)}
            /\ RulesFor(o) # {}
            => /\ Has(comp2id, o)
               /\ \E k \in RulesFor(o) : comp2id[o] = OrgIdOf(db0, env.orgsMap[k][2])

\* C8: in read-only mode the organizations table has the rows it had when
\* the run started, in every state of the resolver goroutines and workers.
C8_NoOrgInsert == env.orgsRO => db.organizations = db0.organizations

\* A read-only run with two threads got through its workers with a name it
\* could not resolve and an enrollment it skipped for that.
C8_Witness ==
    /\ env.orgsRO /\ env.thrN = 2
    /\ pc \in {"stats", "done"}
    /\ sInitech \in missingOrgs
    /\ stats.enrollmentsSkipped > 0

\* The enrollment rows of store d under a slug other than the configured one.
OtherSlugs(d) == SelectSeq(d.enrollments, LAMBDA r : r.project_slug # env.slug)

\* C9: a run configured with a slug (or with none) leaves the enrollment
\* rows stored under any other slug as they were, scans none of them, and
\* every row it inserts carries the configured slug (null when there is none).
C9_SlugScoping ==
    /\ OtherSlugs(db) = OtherSlugs(db0)
    /\ \A u \in DOMAIN ws : \A k \in 1..Len(ws[u].existing) :
          ws[u].existing[k].ProjectSlug = env.slug
    /\ \A r \in Range(db.enrollments) :
          r \notin Range(db0.enrollments) => r.project_slug = env.slug

\* With slug "x" configured a worker found, deleted and inserted again the
\* enrollments of a record that has rows under other slugs too.
C9_Witness ==
    \E u \in DOMAIN ws :
        /\ env.slug = "x"
        /\ ws[u].pc = "done"
        /\ ws[u].existing # <<>>
        /\ Op("enrollment", 0, "delete") \in Range(ws[u].ops)
        /\ Op("enrollment", 1, "insert") \in Range(ws[u].ops)
        /\ \E r \in Range(OtherSlugs(db0)) : r.uuid = u

\* Workers launched whose completion signal has not been received.
InFlight == {u \in DOMAIN ws : ws[u].pc \notin {"idle", "done"}}

\* C10: with a limit of N > 1 threads there are never more than N workers
\* launched and not yet received from, and with N in flight no step adds
\* one: the next launch comes after a completion signal was received.
C10_SchedulerBound ==
    /\ [](env.thrN > 1 => Cardinality(InFlight) <= env.thrN /\ nThreads <= env.thrN)
    /\ [][env.thrN > 1 /\ Cardinality(InFlight) = env.thrN
            => Cardinality(InFlight') <= env.thrN]_vars

\* Two workers are in flight and a third record of the file waits.
C10_Witness ==
    /\ env.thrN = 2
    /\ pc = "fan"
    /\ Cardinality(InFlight) = 2
    /\ todo # {}

\* The "Stats" line has been produced.
StatsPrinted == pc = "done"

\* C11: when the "Stats" line is produced every worker launched for the
\* batch has finished, its merge into the aggregate included: none is
\* running, merging or unwinding.
C11_StatsAfterWorkers ==
    StatsPrinted =>
        /\ \A u \in DOMAIN ws : ws[u].pc = "done"
        /\ mtx = ""
        /\ nThreads = 0
        /\ ~panicking

\* Workers inside the merge: between mtx.Lock() and mtx.Unlock().
Merging == {u \in DOMAIN ws : ws[u].pc \in {"merge", "unlock"}}

\* C12: no update of the aggregate is lost: when the "Stats" line is
\* produced every counter of the aggregate is the sum of that counter over
\* the local statistics of all workers of the batch, and no two workers are
\* ever inside the merge together.
C12_NoLostUpdate ==
    /\ StatsPrinted => stats = locals
    /\ env.thrN > 1 => Cardinality(Merging) <= 1

\* The first Reconciliation Worker of the run has started.
WorkerStarted == fileIdx > 1 \/ \E u \in DOMAIN ws : ws[u].pc # "idle"

\* Organization resolution and country insertion are over for the whole batch.
RegistriesComplete ==
    /\ pc \in {"fan", "stats", "done", "aborted"}
    /\ IF env.orgsRO
       THEN \A o \in DOMAIN rs : rs[o].pc = "done"
       ELSE \A comp \in BatchOrgs(files) : Has(comp2id, comp)
    /\ BatchCountries(files) \subseteq db.countries

\* What the registry phase writes.
registryVars == <<comp2id, id2comp, db.organizations, db.countries>>

\* C13: no worker starts before the organizations are resolved and the
\* countries inserted for the whole batch, and from the start of the first
\* worker to the end of the run no step writes the name->id map, the
\* id->name map, the organizations table or the countries table.
C13_Barrier ==
    [][/\ WorkerStarted' => RegistriesComplete'
       /\ (WorkerStarted /\ runs' = runs) => UNCHANGED registryVars]_vars

\* A second worker runs after the first in read-only mode with two threads.
C13_Witness ==
    /\ env.orgsRO
    /\ env.thrN > 1
    /\ RegistriesComplete
    /\ \E u, v \in DOMAIN ws : u # v /\ ws[u].pc = "done" /\ ws[v].pc \notin {"idle", "done"}

\* A worker of the run has hit fatalOnError or fatalf.
WorkerFailed ==
    \/ panicking
    \/ \E u \in DOMAIN ws : ws[u].pc \in {"panic_send", "dead"}

\* C14: no partial success: once a worker has hit an unrecoverable error the
\* run does not report the final statistics, however the failing worker's
\* deferred completion signal interleaves with the scheduler.
C14_NoPartialSuccess == WorkerFailed => ~StatsPrinted

\* C15: when a file of the argument list cannot be read or parsed, at
\* whatever position, the run goes from its start straight to the abort: no
\* insert or delete reaches the store and no worker or resolver ever runs.
C15_InputErrorsAbortFirst ==
    unreadable # {} =>
        /\ pc \in {"start", "aborted"}
        /\ db = db0
        /\ ws = EmptyMap
        /\ rs = EmptyMap

\* The run has aborted on the second of two files; the first one is
\* readable and holds a record the import would have written.
C15_Witness ==
    /\ pc = "aborted"
    /\ unreadable = {2}
    /\ files[1] # {}
    /\ db = db0

\* The step issues "insert into uidentities" for UUID x.
IssuesUidInsert(x) ==
    /\ x \in DOMAIN ws
    /\ ws[x].pc = "uid_ins"
    /\ x \in DOMAIN ws'
    /\ ws'[x].pc # "uid_ins"

\* C16: no step removes a uidentities row, whatever the flags; a step that
\* adds one is the insert of a worker whose lookup for that UUID returned no
\* row, and the insert is issued for no UUID whose lookup returned a row.
C16_UidentitiesOnlyGrow ==
    [][/\ db.uidentities \subseteq db'.uidentities
       /\ \A x \in db'.uidentities \ db.uidentities : IssuesUidInsert(x)
       /\ \A x \in DOMAIN ws :
            IssuesUidInsert(x) => ~ws[x].fetched /\ x \notin db.uidentities]_vars

\* In replace mode one worker has found its UUID and finished, and the UUID
\* of another record has been added to the stored ones.
C16_Witness ==
    /\ env.replace
    /\ db0.uidentities \subseteq db.uidentities
    /\ db.uidentities # db0.uidentities
    /\ \E x \in db0.uidentities :
         /\ x \in DOMAIN ws
         /\ ws[x].pc = "done"
         /\ ws[x].sts.uidentitiesFound = 1
         /\ ws[x].sts.uidentitiesAdded = 0

\* The worker of u has returned without hitting fatalOnError.
CompletedOK(u) ==
    \/ ws[u].pc = "send"
    \/ ws[u].pc = "done" /\ ~panicking

\* C17: once a worker has completed without error for a UUID that had at
\* most one stored profile row, exactly one profile row exists for that
\* UUID, whatever replace and compare are.
C17_OneProfile ==
    \A u \in DOMAIN ws :
        (CompletedOK(u) /\ Cardinality(ProfilesOf(db0, u)) <= 1) =>
            Cardinality(ProfilesOf(db, u)) = 1

\* With replace on and compare off a worker has deleted the stored profile
\* row of its UUID, inserted the incoming one and completed.
C17_Witness ==
    /\ env.replace
    /\ ~env.compare
    /\ \E u \in DOMAIN ws :
         /\ CompletedOK(u)
         /\ Cardinality(ProfilesOf(db0, u)) = 1
         /\ ws[u].sts.profilesDeleted = 1
         /\ ws[u].sts.profilesAdded = 1
         /\ ProfilesOf(db, u) = {ProfileRow(u, Rec(u).Profile)}

\* The ids of the organizations rows of store d.
OrgIds(d) == {o.id : o \in d.organizations}

\* C18: every enrollment row a worker inserts carries the id of an existing
\* organizations row, never 0 and never an id nothing resolved, in default
\* mode and in read-only mode.
C18_ResolvedOrgId ==
    [][Len(db'.enrollments) > Len(db.enrollments) =>
          LET row == db'.enrollments[Len(db'.enrollments)]
          IN  /\ row.organization_id > 0
              /\ row.organization_id \in OrgIds(db')]_vars

\* The organization of incoming enrollment e has no resolved id.
Unresolved(e) == ~Has(comp2id, e.Organization) \/ comp2id[e.Organization] <= 0

\* The worker of u is past the insert loop of its enrollments, which the
\* decision table made it run.
InsertedEnrollments(u) ==
    LET w == ws[u]
    IN  /\ w.pc \in {"lock", "merge", "unlock", "send"} \/ CompletedOK(u)
        /\ Len(w.dec) > 0
        /\ w.dec[Len(w.dec)].t = "enrollment"
        /\ TableInsert(w.dec[Len(w.dec)])

\* C19: a worker that has inserted the enrollments of a record with an
\* enrollment whose organization has no resolved id runs in read-only mode
\* (with the mode off the run aborts instead), has skipped exactly the
\* unresolved enrollments, counting each once in enrollmentsSkipped, and has
\* inserted all the others.
C19_SkipUnresolved ==
    \A u \in DOMAIN ws :
        LET w == ws[u]
            E == Rec(u).Enrollments
            unresolved == {j \in 1..Len(E) : Unresolved(E[j])}
            inserted == {j \in 1..Len(E) :
                           \E n \in 1..Len(w.ops) : w.ops[n] = Op("enrollment", j, "insert")}
        IN  (InsertedEnrollments(u) /\ unresolved # {}) =>
                /\ env.orgsRO
                /\ inserted = (1..Len(E)) \ unresolved
                /\ w.sts.enrollmentsSkipped = Cardinality(unresolved)
                /\ w.sts.enrollmentsAdded = Len(E) - Cardinality(unresolved)

\* The step is addOrganization(db, comp) of the default mode and its insert
\* fails with Error 1062.
DuplicateOrgInsert(comp) ==
    /\ pc = "orgs_add"
    /\ comp \in todo
    /\ todo' = todo \ {comp}
    /\ ~Has(comp2id, comp)
    /\ addOrganization(db, comp).exists

\* C20: an organization insert that fails with Error 1062 does not abort the
\* run: the id of the stored row with that name is what the name resolves
\* to and no row is added; a country insert, duplicate or not, does not
\* abort the run either.
C20_InsertOrFetch ==
    [][/\ \A comp \in todo :
            DuplicateOrgInsert(comp) =>
                /\ pc' # "aborted"
                /\ db' = db
                /\ Has(comp2id', comp)
                /\ comp2id'[comp] = OrgIdOf(db, stripUnicodeStr(comp))
       /\ pc = "countries" => pc' # "aborted"]_vars

\* The registry names that equal name when both are lower-cased.
LowerMatches(name) == {n \in OrgNames(db0) : ToLower(n) = ToLower(name)}

\* C21: in read-only mode a batch name with no exact match in the registry
\* that equals a registry name case-insensitively is resolved to the id of
\* that registry row.
C21_CaseInsensitiveHit ==
    Resolved =>
        \A o \in BatchOrgs(files) :
            (o \notin OrgNames(db0) /\ LowerMatches(o) # {}) =>
                /\ Has(comp2id, o)
                /\ \E n \in LowerMatches(o) : comp2id[o] = OrgIdOf(db0, n)

\* Name o is mapped to the id of an organizations row.
MappedToRow(o) == Has(comp2id, o) /\ comp2id[o] \in OrgIds(db)

\* C22: after read-only resolution every name of the batch is either mapped
\* to the id of an existing organizations row or recorded as missing, never
\* both and never neither.
C22_MappedOrMissing ==
    Resolved =>
        \A o \in BatchOrgs(files) : MappedToRow(o) <=> o \notin missingOrgs

\* Resolver o is inside yaml.Unmarshal of the rules file.
Loading(o) == env.orgsMap # <<>> /\ rs[o].pc \in {"fill", "load_done"}

\* C23: the mapping rules are loaded at most once per run: no resolver
\* performs the load when a load has already been completed.
C23_LoadOnce == \A o \in DOMAIN rs : Loading(o) => ~orgsLoaded

\* The resolver phase of the default mode has been entered.
DefaultMode == ~env.orgsRO /\ ~env.dry /\ unreadable = {} /\ pc # "start"

\* The run has been aborted by addOrganization.
AbortedResolving == pc = "aborted" /\ fileIdx = 0

\* C24: in default mode resolution does not fail; after it every name of the
\* batch maps to the id of the organizations row stored for it; no name is
\* stored twice; and in a first run the "added new" count is the number of
\* rows the table has gained.
C24_DefaultResolution ==
    DefaultMode =>
        /\ ~AbortedResolving
        /\ pc # "orgs_add" =>
             \A o \in BatchOrgs(files) :
                 /\ Has(comp2id, o)
                 /\ \E row \in db.organizations :
                      row.id = comp2id[o] /\ row.name = stripUnicodeStr(o)
        /\ \A a, b \in db.organizations : a.name = b.name => a = b
        /\ runs = 0 => orgsAdded = Cardinality(db.organizations \ db0.organizations)

\* The enrollments rows of uuid under the configured slug, in store d.
EnrollmentsOf(d, uuid) ==
    SelectSeq(d.enrollments, LAMBDA r : EnrollmentMatch(r, uuid, env.slug))

\* The stored profile, identities and enrollments (under the configured
\* slug) of the record's UUID are the incoming record after normalization.
StoredIsIncoming(rec) ==
    LET enr == getCompIds(rec.Enrollments)
        rows == EnrollmentsOf(db, rec.UUID)
    IN  /\ ProfilesOf(db, rec.UUID) = {ProfileRow(rec.UUID, rec.Profile)}
        /\ {r \in db.identities : r.uuid = rec.UUID} =
               {IdentityRow(rec.Identities[k]) : k \in 1..Len(rec.Identities)}
        /\ Len(rows) = Len(enr)
        /\ Range(rows) = {EnrollmentRow(enr[j], env.slug) : j \in 1..Len(enr)}

\* C25: when the first run was interrupted between two statements of a
\* worker and the same batch has then been run to completion with replace
\* mode on, the stored profile, identities and enrollments of every record
\* are the incoming ones.
C25_SafeByOverwrite ==
    (env.kill /\ env.replace /\ runs = 1 /\ pc = "done") =>
        \A u \in DOMAIN ws : StoredIsIncoming(Rec(u))

\* The phase a worker position belongs to: 1 UniqueIdentity row, 2 Profile,
\* 3 Identities, 4 Enrollments, 5 the merge, 6 returned or failed.
PcPhase(p) ==
    CASE p = "idle" -> 0
      [] p \in {"uid_q", "uid_ins"} -> 1
      [] p \in {"prof_q", "prof_del", "prof_ins"} -> 2
      [] p \in {"id_q", "id_del", "id_ins"} -> 3
      [] p \in {"enr_q", "enr_del", "enr_ins"} -> 4
      [] p \in {"lock", "merge", "unlock"} -> 5
      [] OTHER -> 6

\* The phase of a recorded lookup or mutation.
OpPhase(o) ==
    CASE o.t = "uidentity" -> 1
      [] o.t = "profile" -> 2
      [] o.t = "identity" -> 3
      [] o.t = "enrollment" -> 4

\* The entries of a worker's history are in phase order, the identities in
\* the order of the record.
InPhaseOrder(h) ==
    \A m, n \in 1..Len(h) :
        m < n => /\ OpPhase(h[m]) <= OpPhase(h[n])
                 /\ (h[m].t = "identity" /\ h[n].t = "identity") => h[m].k <= h[n].k

\* The worker of u takes the step.
Steps(u) == u \in DOMAIN ws /\ u \in DOMAIN ws' /\ ws'[u] # ws[u]

\* The step is taken by a worker that is in phase ph.
StepOfPhase(ph) == \E u \in DOMAIN ws : Steps(u) /\ PcPhase(ws[u].pc) = ph

\* C26: a worker goes through the phases UniqueIdentity row, Profile,
\* Identities, Enrollments in this order and never back; each table is
\* written only by a worker in the phase of that table; the aggregate is
\* changed only by a worker in its merge, which it reaches with the lookups
\* of the profile, of every identity and of the enrollments behind it.
C26_PhaseOrder ==
    [][runs' = runs =>
         /\ \A u \in DOMAIN ws :
              Steps(u) =>
                 /\ PcPhase(ws[u].pc) <= PcPhase(ws'[u].pc)
                 /\ InPhaseOrder(ws'[u].ops)
                 /\ InPhaseOrder(ws'[u].dec)
                 /\ PcPhase(ws'[u].pc) = 5 =>
                      LET dec == ws'[u].dec
                          n == Len(Rec(u).Identities)
                      IN  /\ Len(dec) = n + 2
                          /\ dec[1].t = "profile"
                          /\ \A k \in 1..n : dec[k + 1].t = "identity" /\ dec[k + 1].k = k
                          /\ dec[n + 2].t = "enrollment"
         /\ db'.uidentities # db.uidentities => StepOfPhase(1)
         /\ db'.profiles # db.profiles => StepOfPhase(2)
         /\ db'.identities # db.identities => StepOfPhase(3)
         /\ db'.enrollments # db.enrollments => StepOfPhase(4)
         /\ stats' # stats => StepOfPhase(5)]_vars

\* With two threads a worker that wrote profile, identity and enrollment
\* rows has merged; the other worker is still in an earlier phase.
C26_Witness ==
    /\ env.thrN = 2
    /\ \E u, v \in DOMAIN ws :
         /\ ws[u].pc = "send"
         /\ \A ph \in 2..4 : \E n \in 1..Len(ws[u].ops) : OpPhase(ws[u].ops[n]) = ph
         /\ PcPhase(ws[v].pc) \in 1..4

\* The rows of the other UUIDs in a table given as a set, and as a sequence.
OthersIn(rows, u) == {r \in rows : r.uuid # u}

OthersInSeq(rows, u) == SelectSeq(rows, LAMBDA r : r.uuid # u)

\* C27: a step of the worker of UUID u leaves the rows of every other UUID
\* in uidentities, profiles, identities and enrollments as they are: it
\* inserts and deletes only rows whose uuid is u.
C27_OwnRowsOnly ==
    [][\A u \in DOMAIN ws :
          Steps(u) =>
             /\ db'.uidentities \ {u} = db.uidentities \ {u}
             /\ OthersIn(db'.profiles, u) = OthersIn(db.profiles, u)
             /\ OthersIn(db'.identities, u) = OthersIn(db.identities, u)
             /\ OthersInSeq(db'.enrollments, u) = OthersInSeq(db.enrollments, u)]_vars

\* The comparison of two profiles as the specification states it: an
\* optional field present on one side only, or present on both with
\* different normalized values.
FieldDiffers(a, b, nil) == NilDiffer(a, b, nil) \/ (a # nil /\ b # nil /\ a # b)

Normal(str) == IF str = NilStr THEN NilStr ELSE stripUnicodeStr(str)

Code2(str) == IF str = NilStr THEN NilStr ELSE truncToBytes(str, 2)

StatedProfilesDiffer(p1, p2) ==
    \/ FieldDiffers(Normal(p1.Name), Normal(p2.Name), NilStr)
    \/ FieldDiffers(Normal(p1.Email), Normal(p2.Email), NilStr)
    \/ FieldDiffers(p1.Gender, p2.Gender, nils)
    \/ FieldDiffers(p1.GenderAcc, p2.GenderAcc, NilInt)
    \/ FieldDiffers(p1.IsBot, p2.IsBot, NilInt)
    \/ FieldDiffers(Code2(p1.CountryCode), Code2(p2.CountryCode), NilStr)

\* C28: in compare mode the profile lookup of a first run judges the stored
\* profile same exactly when no optional field (name, email, gender,
\* gender confidence, is-bot, country code cut to 2 characters) is present
\* on one side only or present on both with different normalized values.
C28_ProfilesDiffer ==
    \A u \in DOMAIN ws :
        LET dec == ws[u].dec
        IN  (runs = 0 /\ env.compare /\ Len(dec) >= 1 /\ dec[1].fetched) =>
                \A row \in ProfilesOf(db0, u) :
                    dec[1].same =
                        ~StatedProfilesDiffer(Incoming(Rec(u).Profile), ScanProfile(row))


\* The (organization, start, end) tuples of an incoming enrollment list and
\* of the rows stored for a UUID under the configured slug, the organization
\* of a row being the registry name of its id in store d.
IncomingTuples(enrollments) ==
    {<<stripUnicodeStr(enrollments[j].Organization), enrollments[j].Start,
       enrollments[j].End>> : j \in 1..Len(enrollments)}

StoredTuples(d, uuid) ==
    LET rows == EnrollmentsOf(d, uuid)
    IN  {<<(CHOOSE o \in d.organizations : o.id = rows[k].organization_id).name,
           rows[k].start, rows[k].end>> : k \in 1..Len(rows)}

\* C29: with a project slug configured and compare mode on, an incoming
\* enrollment list whose set of (organization, start, end) tuples equals the
\* set stored for the UUID under that slug is judged same: it is counted in
\* enrollmentsSame and the worker deletes and inserts no enrollment.
C29_SlugSameSet ==
    \A u \in DOMAIN ws :
        LET w == ws[u]
            rows == EnrollmentsOf(db0, u)
        IN  (/\ runs = 0
             /\ env.slug # nils
             /\ env.compare
             /\ rows # <<>>
             /\ \A k \in 1..Len(rows) :
                    \E o \in db0.organizations : o.id = rows[k].organization_id
             /\ IncomingTuples(Rec(u).Enrollments) = StoredTuples(db0, u)
             /\ \E k \in 1..Len(w.dec) : w.dec[k].t = "enrollment")
            => /\ \A k \in 1..Len(w.dec) :
                    w.dec[k].t = "enrollment" => w.dec[k].same
               /\ w.sts.enrollmentsSame = 1
               /\ \A k \in 1..Len(w.ops) : w.ops[k].t # "enrollment"

\* The tests of rule k in the stated order: its pattern against the name and
\* the canonical name among the registry's names, then its pattern against
\* the lower-cased name and the canonical name among the lower-cased ones.
HitAsWritten(o, k) ==
    /\ Regexp(o, Unescape(env.orgsMap[k][1]))
    /\ env.orgsMap[k][2] \in OrgNames(db0)

HitLowered(o, k) ==
    /\ Regexp(ToLower(o), Unescape(env.orgsMap[k][1]))
    /\ \E n \in OrgNames(db0) : ToLower(n) = env.orgsMap[k][2]

StatedHits(o) ==
    {k \in 1..Len(env.orgsMap) : HitAsWritten(o, k) \/ HitLowered(o, k)}

\* The id of the first rule, in configured order, one of whose two tests hits.
StatedId(o) ==
    LET k == CHOOSE h \in StatedHits(o) : \A g \in StatedHits(o) : h <= g
        to == env.orgsMap[k][2]
    IN  IF HitAsWritten(o, k) THEN OrgIdOf(db0, to)
        ELSE (CHOOSE r \in db0.organizations : ToLower(r.name) = to).id

\* C30: in read-only resolution a name with no exact and no lower-case match
\* is resolved by the first rule, in configured order, that matches it as
\* written or, failing that, lower-cased, before the next rule is considered.
C30_RuleOrder ==
    Resolved =>
        \A o \in BatchOrgs(files) :
            (/\ o \notin OrgNames(db0)
             /\ ToLower(o) \notin {ToLower(n) : n \in OrgNames(db0)}
             /\ StatedHits(o) # {})
            => /\ Has(comp2id, o)
               /\ comp2id[o] = StatedId(o)

\* The rules whose pattern matches the name as written, and those whose
\* pattern matches the lower-cased name and whose canonical name is a name
\* of the registry the run started with.
MatchAsWritten(o) ==
    {k \in 1..Len(env.orgsMap) : Regexp(o, Unescape(env.orgsMap[k][1]))}

LowerRulesFor(o) ==
    {k \in 1..Len(env.orgsMap) :
        /\ Regexp(ToLower(o), Unescape(env.orgsMap[k][1]))
        /\ env.orgsMap[k][2] \in OrgNames(db0)}

\* C31: in read-only resolution a name with no exact and no lower-case
\* match, matched as written by no rule and lower-cased by a rule whose
\* canonical name is in the registry, is resolved to the id of that
\* canonical name, however the canonical name is cased.
C31_LowerRuleResolves ==
    Resolved =>
        \A o \in BatchOrgs(files) :
            (/\ o \notin OrgNames(db0)
             /\ ToLower(o) \notin {ToLower(n) : n \in OrgNames(db0)}
             /\ MatchAsWritten(o) = {}
             /\ LowerRulesFor(o) # {})
            => /\ Has(comp2id, o)
               /\ \E k \in LowerRulesFor(o) :
                      comp2id[o] = OrgIdOf(db0, env.orgsMap[k][2])

\* A step that writes the name->id map, the id->name map or the missing
\* set, and a step of resolver o that reads the name->id map.
MapWrite == comp2id' # comp2id \/ id2comp' # id2comp \/ missingOrgs' # missingOrgs

MapRead(o) ==
    /\ rs'[o] # rs[o]
    /\ \/ rs[o].pc = "exact"
       \/ /\ rs[o].pc = "rule"
          /\ ~rs[o].lower
          /\ RuleHits(o, FALSE, rs[o].rules[rs[o].i])

\* C32: during read-only resolution a step that reads the name->id map or
\* writes the name->id map, the id->name map or the missing set is taken
\* only while no other goroutine holds the exclusive lock.
C32_LockDiscipline ==
    [][(pc = "orgs_ro" /\ (MapWrite \/ \E o \in DOMAIN rs : MapRead(o))) => mut = <<>>]_vars

\* A goroutine holds the exclusive lock while another one stands before a
\* read or a write of the maps, after a first name was recorded as missing.
C32_Witness ==
    /\ pc = "orgs_ro"
    /\ mut # <<>>
    /\ missingOrgs # {}
    /\ \E q \in DOMAIN rs : q # mut /\ rs[q].pc \in {"exact", "lower_write", "missing"}

\* C33: no resolver goroutine is inside its loop over the rule list while
\* another goroutine is decoding the rules file into that list.
C33_NoRuleRace ==
    \A o, q \in DOMAIN rs :
        ~(o # q /\ rs[o].pc = "rule" /\ env.orgsMap # <<>> /\ rs[q].pc = "fill")

\* The fan-out loop over a file is left: the next file starts or the
\* statistics are printed.
LoopLeft == fileIdx' # fileIdx \/ pc' = "stats"

\* C34: with a limit of N > 1 threads and no failing worker the fan-out
\* loop ends: the in-flight count is the number of workers launched and not
\* yet received from, it is 0 when the loop over a file is left, every
\* worker of the file then has been launched and its signal received, none
\* stands in its send, and the loop is left eventually.
C34_SchedulerTerminates ==
    /\ [](env.thrN > 1 /\ pc = "fan" => nThreads = Cardinality(InFlight))
    /\ [][(env.thrN > 1 /\ pc = "fan" /\ ~WorkerFailed /\ LoopLeft)
            => nThreads = 0 /\ \A u \in DOMAIN ws : ws[u].pc = "done"]_vars
    /\ (env.thrN > 1 /\ pc = "fan") ~> (pc # "fan" \/ WorkerFailed)

\* A run with two threads over a file of more than two records has printed
\* its statistics with no worker failed.
C34_Witness ==
    /\ env.thrN = 2
    /\ pc = "done"
    /\ ~WorkerFailed
    /\ Cardinality(DOMAIN ws) > 2
    /\ nThreads = 0
    /\ \A u \in DOMAIN ws : ws[u].pc = "done"

\* The number of records of the batch and the number of identities in them.
RECURSIVE IdentitiesIn(_)
IdentitiesIn(S) ==
    IF S = {} THEN 0
    ELSE LET r == CHOOSE x \in S : TRUE
         IN  Len(r.Identities) + IdentitiesIn(S \ {r})

RecordsProcessed == SumSeq([i \in 1..Len(files) |-> Cardinality(files[i])])

IdentitiesProcessed == SumSeq([i \in 1..Len(files) |-> IdentitiesIn(files[i])])

\* The run has printed its statistics and no worker has failed.
RunWithoutErrors == pc = "done" /\ ~WorkerFailed /\ unreadable = {}

\* C35: in the aggregate of a run without errors the uidentities counters
\* add up to the number of records; for profiles and identities same +
\* deleted <= found and added = looked up - found + deleted; deleted is 0
\* for every kind with replace off and same is 0 with compare off.
C35_CounterConsistency ==
    RunWithoutErrors =>
        /\ stats.uidentitiesAdded + stats.uidentitiesFound = RecordsProcessed
        /\ stats.profilesSame + stats.profilesDeleted <= stats.profilesFound
        /\ stats.profilesAdded =
               (RecordsProcessed - stats.profilesFound) + stats.profilesDeleted
        /\ stats.identitiesSame + stats.identitiesDeleted <= stats.identitiesFound
        /\ stats.identitiesAdded =
               (IdentitiesProcessed - stats.identitiesFound) + stats.identitiesDeleted
        /\ ~env.replace =>
               /\ stats.profilesDeleted = 0
               /\ stats.identitiesDeleted = 0
               /\ stats.enrollmentsDeleted = 0
        /\ ~env.compare =>
               /\ stats.profilesSame = 0
               /\ stats.identitiesSame = 0
               /\ stats.enrollmentsSame = 0

\* A run with replace and compare on has ended with a profile kept as same
\* and an identity deleted and added again.
C35_Witness ==
    /\ RunWithoutErrors
    /\ env.replace
    /\ env.compare
    /\ stats.profilesSame >= 1
    /\ stats.identitiesDeleted >= 1
    /\ stats.identitiesAdded >= 1

\* The incoming identity lacks its name, its email or its username.
AbsentField(identity) ==
    identity.Name = NilStr \/ identity.Email = NilStr \/ identity.Username = NilStr

WithId(d, identity) == {r \in d.identities : r.id = identity.ID}

\* C36: for an incoming identity that lacks its name, email or username the
\* lookup fetches exactly when a stored row has its external id, and the
\* delete of replace mode removes the rows with that id and no other.
C36_NullNeverMatches ==
    [][\A u \in DOMAIN ws :
          (/\ pc = "fan"
           /\ u \in DOMAIN ws'
           /\ ws'[u] # ws[u]
           /\ ws[u].pc \in {"id_q", "id_del"}
           /\ AbsentField(Rec(u).Identities[ws[u].i]))
          => LET identity == Rec(u).Identities[ws[u].i]
             IN  IF ws[u].pc = "id_q"
                 THEN ws'[u].fetched = (WithId(db, identity) # {})
                 ELSE db.identities \ db'.identities = WithId(db, identity)]_vars

\* A worker in replace mode is done: its identity without email was not
\* found although a row with the same values is stored, and the row with
\* the values of its identity without username is still stored after the
\* delete by id.
C36_Witness ==
    /\ env.replace
    /\ "u1" \in DOMAIN ws
    /\ ws["u1"].pc = "done"
    /\ Rec("u1").Identities = <<iNoMail, iNoUser>>
    /\ Dec("identity", 1, FALSE, FALSE) \in Range(ws["u1"].dec)
    /\ Op("identity", 2, "delete") \in Range(ws["u1"].ops)
    /\ [IdentityRow(iNoMail) EXCEPT !.id = "i2"] \in db.identities
    /\ [IdentityRow(iNoUser) EXCEPT !.id = "i4"] \in db.identities

\* C37: after read-only resolution the id->name map sends every id of the
\* organizations registry to the name the table stores for it.
C37_IdToNameStable ==
    Resolved =>
        \A row \in db0.organizations :
            /\ Has(id2comp, row.id)
            /\ id2comp[row.id] = row.name

\* Two enrollments agree on UUID, organization, organization id and project
\* slug, and their starts and their ends fall on the same dates.
SameDates(a, b) ==
    /\ a.UUID = b.UUID
    /\ a.Organization = b.Organization
    /\ a.OrgID = b.OrgID
    /\ a.ProjectSlug = b.ProjectSlug
    /\ a.Start \div SecondsPerDay = b.Start \div SecondsPerDay
    /\ a.End \div SecondsPerDay = b.End \div SecondsPerDay

\* C38: enrollments that differ in the time of day only have the same
\* comparison key, and two one-element lists of such enrollments are judged
\* same.
C38_DateGranularity ==
    dRes # "?" =>
        /\ \A i \in 1..Len(dArgs[1]), j \in 1..Len(dArgs[2]) :
               SameDates(dArgs[1][i], dArgs[2][j]) =>
                   shEnrollmentString(dArgs[1][i]) = shEnrollmentString(dArgs[2][j])
        /\ (/\ Len(dArgs[1]) = 1
            /\ Len(dArgs[2]) = 1
            /\ SameDates(dArgs[1][1], dArgs[2][1])) => dRes = "same"

\* Compare has answered for two one-element lists whose ends are an hour
\* apart on the same day.
C38_Witness ==
    /\ dRes = "same"
    /\ dArgs = <<<<Enr("u1", sAcmeInc, Day(1), Day(2))>>,
                 <<Enr("u1", sAcmeInc, Day(1), Day(2) + 3600)>>>>

\* C39: with DRY set every table stays as it was, no resolver goroutine and
\* no worker is started and nothing is resolved or counted: the program
\* goes from its start to its return, or to the abort on an unreadable file.
C39_DryRun ==
    env.dry =>
        /\ db = db0
        /\ pc \in {"start", "dry_done", "aborted"}
        /\ \A o \in DOMAIN rs : rs[o].pc = "idle"
        /\ \A u \in DOMAIN ws : ws[u].pc = "idle"
        /\ todo = {}
        /\ nThreads = 0
        /\ stats = ZeroStats
        /\ missingOrgs = {}
        /\ orgsAdded = 0
        /\ pc = "aborted" => unreadable # {}

\* A dry run over a batch with organizations the registry lacks has
\* returned after reading the registry.
C39_Witness ==
    /\ env.dry
    /\ pc = "dry_done"
    /\ comp2id # EmptyMap
    /\ \E o \in BatchOrgs(files) : ~Has(comp2id, o)
    /\ db = db0

====
